---------------------------- MODULE Spec2Model ----------------------------
(***************************************************************************)
(* Model of the MySQL-to-OpenAPI generators:                               *)
(*   src/mysql_to_openapi.py            (all-in-one catalog, "basic")      *)
(*   src/mysql_to_individual_openapi.py (one document per table,           *)
(*                                       "enhanced")                       *)
(*   src/mysql_to_yaml.py               (table data exporter, "yaml")      *)
(* Python strings are TLA+ strings (Len, \o and SubSeq work on them in     *)
(* TLC); a plain dict is a function from its keys; an OrderedDict is a     *)
(* sequence of <<key, value>> pairs in insertion order; a list is a        *)
(* sequence; a DESCRIBE row is a tuple <<Field, Type, Null, Key, Default,  *)
(* Extra>> (Python index k is index k+1 here).                             *)
(***************************************************************************)
EXTENDS Integers, Sequences, FiniteSets, TLC

VARIABLES
    mode,             \* "fn": one call of a generation function; "run": a program run
    call,             \* fn mode: the function called and its arguments
    ret,              \* fn mode: the value returned by the call
    pc,               \* position of the call or of the run
    program,          \* run mode: "all_in_one", "individual" or "yaml"
    connection,       \* "none", "open" or "closed"
    raw_tables,       \* the names SHOW TABLES lists
    idx,              \* position of the validation loop, then of the table loop
    valid_tables,
    invalid_tables,
    openapi_spec,     \* all_in_one: the catalog being accumulated
    processed_tables, \* all_in_one
    built,            \* all_in_one: per processed table, the schemas built from its columns
    generated_files,  \* individual
    searchable_apis,  \* individual
    system_apis,      \* individual
    exported_files,   \* yaml: <<table_name, file_path, record count>> per file
    total_records,    \* yaml
    dirs,             \* the directories that exist
    files,            \* the files that exist, path -> content
    log,              \* what the run printed, as events
    outcome           \* "running", "returned", "completed" or "run_error"

fnVars == <<call, ret>>

runVars == <<program, connection, raw_tables, idx, valid_tables, invalid_tables,
             openapi_spec, processed_tables, built, generated_files, searchable_apis,
             system_apis, exported_files, total_records, dirs, files, log, outcome>>

vars == <<mode, pc, fnVars, runVars>>

---------------------------------------------------------------------------
(* Strings *)

UpperAlpha == "ABCDEFGHIJKLMNOPQRSTUVWXYZ"
LowerAlpha == "abcdefghijklmnopqrstuvwxyz"
Digits == "0123456789"

CharAt(s, i) == SubSeq(s, i, i)

\* The characters of s, as a set of one-character strings.
Chars(s) == {CharAt(s, i) : i \in 1..Len(s)}

LowerChar(c) ==
    IF \E i \in 1..Len(UpperAlpha) : CharAt(UpperAlpha, i) = c
    THEN CharAt(LowerAlpha, CHOOSE i \in 1..Len(UpperAlpha) : CharAt(UpperAlpha, i) = c)
    ELSE c

UpperChar(c) ==
    IF \E i \in 1..Len(LowerAlpha) : CharAt(LowerAlpha, i) = c
    THEN CharAt(UpperAlpha, CHOOSE i \in 1..Len(LowerAlpha) : CharAt(LowerAlpha, i) = c)
    ELSE c

RECURSIVE Lower(_)
\* str.lower()
Lower(s) == IF Len(s) = 0 THEN "" ELSE LowerChar(CharAt(s, 1)) \o Lower(SubSeq(s, 2, Len(s)))

RECURSIVE Upper(_)
\* str.upper()
Upper(s) == IF Len(s) = 0 THEN "" ELSE UpperChar(CharAt(s, 1)) \o Upper(SubSeq(s, 2, Len(s)))

\* str.capitalize(): first character upper-cased, the rest lower-cased
Capitalize(s) ==
    IF Len(s) = 0 THEN "" ELSE UpperChar(CharAt(s, 1)) \o Lower(SubSeq(s, 2, Len(s)))

\* `sub in s`
Contains(s, sub) ==
    \E i \in 1..(Len(s) - Len(sub) + 1) : SubSeq(s, i, i + Len(sub) - 1) = sub

\* s.endswith(suf)
EndsWith(s, suf) ==
    /\ Len(suf) <= Len(s)
    /\ SubSeq(s, Len(s) - Len(suf) + 1, Len(s)) = suf

\* s[:-1]
DropLast(s) == IF Len(s) = 0 THEN "" ELSE SubSeq(s, 1, Len(s) - 1)

Whitespace == {" ", "\t", "\n", "\r"}

RECURSIVE LStrip(_)
LStrip(s) ==
    IF Len(s) > 0 /\ CharAt(s, 1) \in Whitespace THEN LStrip(SubSeq(s, 2, Len(s))) ELSE s

RECURSIVE RStrip(_)
RStrip(s) ==
    IF Len(s) > 0 /\ CharAt(s, Len(s)) \in Whitespace THEN RStrip(DropLast(s)) ELSE s

\* str.strip()
Strip(s) == RStrip(LStrip(s))

\* The characters of [a-zA-Z0-9_]
NameChars == Chars(UpperAlpha) \cup Chars(LowerAlpha) \cup Chars(Digits) \cup {"_"}

\* The pattern without its `$`: the name only has to start with a character of the class
is_valid_table_name_unanchored(table_name) ==
    Len(Strip(table_name)) > 0 /\ CharAt(Strip(table_name), 1) \in NameChars

\* bool(re.match(r'^[a-zA-Z0-9_]+$', table_name.strip()))
is_valid_table_name(table_name) ==
    LET t == Strip(table_name) IN Len(t) > 0 /\ Chars(t) \subseteq NameChars

---------------------------------------------------------------------------
(* Plain dicts *)

\* d[k] = v
Put(d, k, v) == [x \in (DOMAIN d) \cup {k} |-> IF x = k THEN v ELSE d[x]]

\* `k in d`
HasKey(d, k) == k \in DOMAIN d

---------------------------------------------------------------------------
(* Type Mapper *)

\* EnhancedTypeRules with the `date` test placed before the `datetime` / `timestamp` test
EnhancedTypeRulesDateFirst(t) ==
    IF Contains(t, "int") THEN
        IF Contains(t, "bigint") THEN [type |-> "integer", format |-> "int64"]
        ELSE IF Contains(t, "tinyint(1)") THEN [type |-> "boolean"]
        ELSE [type |-> "integer", format |-> "int32"]
    ELSE IF Contains(t, "float") \/ Contains(t, "double") \/ Contains(t, "decimal")
        THEN [type |-> "number", format |-> "double"]
    ELSE IF Contains(t, "varchar") \/ Contains(t, "text") \/ Contains(t, "char")
        THEN [type |-> "string"]
    ELSE IF Contains(t, "date") THEN [type |-> "string", format |-> "date"]
    ELSE IF Contains(t, "datetime") \/ Contains(t, "timestamp")
        THEN [type |-> "string", format |-> "date-time"]
    ELSE IF Contains(t, "time") THEN [type |-> "string", format |-> "time"]
    ELSE IF Contains(t, "bool") THEN [type |-> "boolean"]
    ELSE IF Contains(t, "json") THEN [type |-> "object"]
    ELSE IF Contains(t, "enum") THEN [type |-> "string"]
    ELSE [type |-> "string"]

\* mysql_to_individual_openapi.py: the rules applied to the lower-cased string
EnhancedTypeRules(t) ==
    IF Contains(t, "int") THEN
        IF Contains(t, "bigint") THEN [type |-> "integer", format |-> "int64"]
        ELSE IF Contains(t, "tinyint(1)") THEN [type |-> "boolean"]
        ELSE [type |-> "integer", format |-> "int32"]
    ELSE IF Contains(t, "float") \/ Contains(t, "double") \/ Contains(t, "decimal")
        THEN [type |-> "number", format |-> "double"]
    ELSE IF Contains(t, "varchar") \/ Contains(t, "text") \/ Contains(t, "char")
        THEN [type |-> "string"]
    ELSE IF Contains(t, "datetime") \/ Contains(t, "timestamp")
        THEN [type |-> "string", format |-> "date-time"]
    ELSE IF Contains(t, "date") THEN [type |-> "string", format |-> "date"]
    ELSE IF Contains(t, "time") THEN [type |-> "string", format |-> "time"]
    ELSE IF Contains(t, "bool") THEN [type |-> "boolean"]
    ELSE IF Contains(t, "json") THEN [type |-> "object"]
    ELSE IF Contains(t, "enum") THEN [type |-> "string"]
    ELSE [type |-> "string"]

\* BasicTypeRules with the enhanced program's tinyint(1) branch copied in
BasicTypeRulesTinyintBoolean(t) ==
    IF Contains(t, "int") THEN
        IF Contains(t, "bigint") THEN [type |-> "integer", format |-> "int64"]
        ELSE IF Contains(t, "tinyint(1)") THEN [type |-> "boolean"]
        ELSE [type |-> "integer", format |-> "int32"]
    ELSE IF Contains(t, "float") \/ Contains(t, "double") \/ Contains(t, "decimal")
        THEN [type |-> "number", format |-> "double"]
    ELSE IF Contains(t, "varchar") \/ Contains(t, "text") \/ Contains(t, "char")
        THEN [type |-> "string"]
    ELSE IF Contains(Lower(t), "email") \/ Contains(Lower(t), "mail")
        THEN [type |-> "string", format |-> "email"]
    ELSE IF Contains(t, "datetime") \/ Contains(t, "timestamp")
        THEN [type |-> "string", format |-> "date-time"]
    ELSE IF Contains(t, "date") THEN [type |-> "string", format |-> "date"]
    ELSE IF Contains(t, "bool") \/ Contains(t, "tinyint(1)") THEN [type |-> "boolean"]
    ELSE IF Contains(t, "json") THEN [type |-> "object"]
    ELSE [type |-> "string"]

\* mysql_to_openapi.py: the rules applied to the lower-cased string
BasicTypeRules(t) ==
    IF Contains(t, "int") THEN
        IF Contains(t, "bigint") THEN [type |-> "integer", format |-> "int64"]
        ELSE [type |-> "integer", format |-> "int32"]
    ELSE IF Contains(t, "float") \/ Contains(t, "double") \/ Contains(t, "decimal")
        THEN [type |-> "number", format |-> "double"]
    ELSE IF Contains(t, "varchar") \/ Contains(t, "text") \/ Contains(t, "char")
        THEN [type |-> "string"]
    ELSE IF Contains(Lower(t), "email") \/ Contains(Lower(t), "mail")
        THEN [type |-> "string", format |-> "email"]
    ELSE IF Contains(t, "datetime") \/ Contains(t, "timestamp")
        THEN [type |-> "string", format |-> "date-time"]
    ELSE IF Contains(t, "date") THEN [type |-> "string", format |-> "date"]
    ELSE IF Contains(t, "bool") \/ Contains(t, "tinyint(1)") THEN [type |-> "boolean"]
    ELSE IF Contains(t, "json") THEN [type |-> "object"]
    ELSE [type |-> "string"]

\* The enhanced mapper without its `mysql_type = mysql_type.lower()` line
mysql_type_to_openapi_type_no_lower(mysql_type) == EnhancedTypeRules(mysql_type)

\* mysql_type_to_openapi_type of mysql_to_individual_openapi.py
mysql_type_to_openapi_type_enhanced(mysql_type) == EnhancedTypeRules(Lower(mysql_type))

\* The basic mapper without its `mysql_type = mysql_type.lower()` line
mysql_type_to_openapi_type_basic_no_lower(mysql_type) == BasicTypeRules(mysql_type)

\* mysql_type_to_openapi_type of mysql_to_openapi.py
mysql_type_to_openapi_type_basic(mysql_type) == BasicTypeRules(Lower(mysql_type))

mysql_type_to_openapi_type(variant, mysql_type) ==
    IF variant = "enhanced" THEN mysql_type_to_openapi_type_enhanced(mysql_type)
    ELSE mysql_type_to_openapi_type_basic(mysql_type)

---------------------------------------------------------------------------
(* Lists and DESCRIBE rows *)

\* any(f in s for f in fragments)
AnyIn(fragments, s) == \E i \in 1..Len(fragments) : Contains(s, fragments[i])

\* xs[:n]
Take(xs, n) == SubSeq(xs, 1, IF Len(xs) < n THEN Len(xs) ELSE n)

RECURSIVE Join(_, _)
\* sep.join(xs)
Join(sep, xs) ==
    IF Len(xs) = 0 THEN ""
    ELSE IF Len(xs) = 1 THEN xs[1]
    ELSE xs[1] \o sep \o Join(sep, Tail(xs))

\* The value None
NoValue == [none |-> TRUE]

\* A DESCRIBE row: column[0] .. column[5]
Col(name, type, null, key, extra) == <<name, type, null, key, NoValue, extra>>

---------------------------------------------------------------------------
(* Query Parameter Advisor (mysql_to_individual_openapi.py) *)

high_priority_tables ==
    << "users", "tasks", "parenttasks", "taskassignments",
       "assignmentactions", "taskconflicts", "notifications",
       "taskrecurrencerule", "reminders", "emergencycontacts",
       "familyaccount", "caregivers", "seniors", "family" >>

medium_priority_tables ==
    << "categories", "priorities", "statuses", "roles",
       "settings", "preferences", "schedules" >>

system_tables ==
    << "categorypriority", "conflictactions", "conflictsuggestions",
       "log_", "audit_", "temp_", "backup_" >>

\* The classification with the priority lists consulted before the system list
should_generate_priority_first(table_name) ==
    LET table_name_lower == Lower(table_name) IN
    IF AnyIn(high_priority_tables, table_name_lower)
       \/ AnyIn(medium_priority_tables, table_name_lower) THEN TRUE
    ELSE FALSE

should_generate_query_params_individual(table_name) ==
    LET table_name_lower == Lower(table_name) IN
    IF AnyIn(system_tables, table_name_lower) THEN FALSE
    ELSE AnyIn(high_priority_tables, table_name_lower)
         \/ AnyIn(medium_priority_tables, table_name_lower)

\* A Python dict literal and a Python set literal, told apart
PyDict(d) == [py |-> "dict", v |-> d]
PySet(S) == [py |-> "set", v |-> S]

\* One query parameter
QueryParam(name, schema, description) ==
    [name |-> name, in |-> "query", required |-> FALSE, schema |-> schema,
     description |-> description]

UserParams(column_names) ==
    << QueryParam("role_id",
                  PyDict([type |-> "integer", enum |-> <<1, 2, 3>>,
                          description |-> "1=Senior, 2=Family, 3=Caregiver"]),
                  "Filter by user role"),
       QueryParam("active", PyDict([type |-> "boolean"]), "Filter by active status") >>
    \o (IF \E i \in 1..Len(column_names) : Contains(column_names[i], "name")
        THEN << QueryParam("name_search", PyDict([type |-> "string", minLength |-> 2]),
                           "Search by name (partial match, minimum 2 characters)") >>
        ELSE <<>>)

TaskParams(column_names) ==
    << QueryParam("status_id",
                  PyDict([type |-> "integer", enum |-> <<1, 2, 3, 4>>,
                          description |-> "1=Pending, 2=In Progress, 3=Completed, 4=Cancelled"]),
                  "Filter by task status"),
       QueryParam("priority_level",
                  PyDict([type |-> "integer", minimum |-> 1, maximum |-> 5]),
                  "Filter by priority level (1=Low, 5=Critical)"),
       \* line 153 writes {'type', 'integer'}: a set, not a dict
       QueryParam("assigned_to", PySet({"type", "integer"}), "Filter by assigned user ID") >>
    \o (IF \E i \in 1..Len(column_names) : Contains(column_names[i], "due")
        THEN << QueryParam("due_date_from", PyDict([type |-> "string", format |-> "date"]),
                           "Filter tasks due from this date"),
                QueryParam("due_date_to", PyDict([type |-> "string", format |-> "date"]),
                           "Filter tasks due until this date") >>
        ELSE <<>>)

ContactParams ==
    << QueryParam("relationship", PyDict([type |-> "string"]), "Filter by relationship type"),
       QueryParam("is_emergency", PyDict([type |-> "boolean"]), "Filter emergency contacts only") >>

NotificationParams ==
    << QueryParam("is_read", PyDict([type |-> "boolean"]), "Filter by read status"),
       QueryParam("notification_type", PyDict([type |-> "string"]), "Filter by notification type") >>

\* TopicParams with the four topic blocks as independent `if`s instead of if / elif
TopicParamsEveryBlock(table_name_lower, column_names) ==
    (IF Contains(table_name_lower, "users") \/ Contains(table_name_lower, "user")
     THEN UserParams(column_names) ELSE <<>>)
    \o (IF Contains(table_name_lower, "task") THEN TaskParams(column_names) ELSE <<>>)
    \o (IF Contains(table_name_lower, "contact") THEN ContactParams ELSE <<>>)
    \o (IF Contains(table_name_lower, "notification") THEN NotificationParams ELSE <<>>)

\* The if / elif / elif / elif chain of table-specific parameters
TopicParams(table_name_lower, column_names) ==
    IF Contains(table_name_lower, "users") \/ Contains(table_name_lower, "user")
        THEN UserParams(column_names)
    ELSE IF Contains(table_name_lower, "task") THEN TaskParams(column_names)
    ELSE IF Contains(table_name_lower, "contact") THEN ContactParams
    ELSE IF Contains(table_name_lower, "notification") THEN NotificationParams
    ELSE <<>>

DateRangeParams(column_names) ==
    IF \E i \in 1..Len(column_names) : Contains(column_names[i], "created_at")
    THEN << QueryParam("created_from", PyDict([type |-> "string", format |-> "date-time"]),
                       "Filter records created from this date/time"),
            QueryParam("created_to", PyDict([type |-> "string", format |-> "date-time"]),
                       "Filter records created until this date/time") >>
    ELSE <<>>

\* IsTextColumn counting every column whose type holds `char` or `text`
IsTextColumnAnyChar(col) == Contains(Lower(col[2]), "char") \/ Contains(Lower(col[2]), "text")

IsTextColumn(col) == Contains(Lower(col[2]), "varchar") \/ Contains(Lower(col[2]), "text")

SearchParams(columns) ==
    LET text_columns == [i \in 1..Len(SelectSeq(columns, IsTextColumn)) |->
                            SelectSeq(columns, IsTextColumn)[i][1]] IN
    IF Len(text_columns) > 0 /\ Len(text_columns) > 1
    THEN << QueryParam("search", PyDict([type |-> "string", minLength |-> 3]),
                       "Global search across text fields: "
                           \o Join(", ", Take(text_columns, 3))
                           \o (IF Len(text_columns) > 3 THEN "..." ELSE "")) >>
    ELSE <<>>

StandardParams(columns) ==
    << QueryParam("page", PyDict([type |-> "integer", minimum |-> 1, default |-> 1]),
                  "Page number for pagination"),
       QueryParam("limit",
                  PyDict([type |-> "integer", minimum |-> 1, maximum |-> 100, default |-> 20]),
                  "Number of items per page"),
       QueryParam("sort_by",
                  PyDict([type |-> "string",
                          enum |-> [i \in 1..Len(Take(columns, 10)) |-> columns[i][1]]]),
                  "Field to sort by"),
       QueryParam("sort_order",
                  PyDict([type |-> "string", enum |-> <<"asc", "desc">>, default |-> "asc"]),
                  "Sort order (ascending or descending)") >>

\* add_smart_query_params with the pagination and sort parameters put first
add_smart_query_params_standard_first(columns, table_name) ==
    IF ~should_generate_query_params_individual(table_name) THEN <<>>
    ELSE LET table_name_lower == Lower(table_name)
             column_names == [i \in 1..Len(columns) |-> Lower(columns[i][1])]
         IN  StandardParams(columns)
             \o TopicParams(table_name_lower, column_names)
             \o DateRangeParams(column_names)
             \o SearchParams(columns)

add_smart_query_params(columns, table_name) ==
    IF ~should_generate_query_params_individual(table_name) THEN <<>>
    ELSE LET table_name_lower == Lower(table_name)
             column_names == [i \in 1..Len(columns) |-> Lower(columns[i][1])]
         IN  TopicParams(table_name_lower, column_names)
             \o DateRangeParams(column_names)
             \o SearchParams(columns)
             \o StandardParams(columns)

---------------------------------------------------------------------------
(* OrderedDicts: sequences of <<key, value>> in insertion order *)

OKeys(od) == [i \in 1..Len(od) |-> od[i][1]]

OKeySet(od) == {od[i][1] : i \in 1..Len(od)}

\* `k in od`
OHas(od, k) == \E i \in 1..Len(od) : od[i][1] = k

\* od[k]
OGet(od, k) == od[CHOOSE i \in 1..Len(od) : od[i][1] = k][2]

\* od[k] = v: a present key keeps its place and takes the new value
OPut(od, k, v) ==
    IF OHas(od, k)
    THEN [i \in 1..Len(od) |-> IF od[i][1] = k THEN <<k, v>> ELSE od[i]]
    ELSE Append(od, <<k, v>>)

RECURSIVE OFromPairs(_)
\* OrderedDict([(k1, v1), (k2, v2), ...])
OFromPairs(pairs) ==
    IF Len(pairs) = 0 THEN <<>>
    ELSE OPut(OFromPairs(SubSeq(pairs, 1, Len(pairs) - 1)),
              pairs[Len(pairs)][1], pairs[Len(pairs)][2])

\* The members of a list
Range(xs) == {xs[i] : i \in 1..Len(xs)}

\* d without key k: `del d[k]`
DelKey(d, k) == [x \in (DOMAIN d) \ {k} |-> d[x]]

---------------------------------------------------------------------------
(* Field Decorator and the column loop *)

\* An optional string: None is <<>>, a value s is <<s>>
None == <<>>
Some(s) == <<s>>

\* The truth value Python gives an optional string
Truthy(opt) == opt # None /\ opt[1] # ""

EmptySchema == [type |-> "object", properties |-> <<>>, required |-> <<>>]

\* The locals of the column loop before its first iteration
LoopStart ==
    [raised |-> FALSE,
     table_schema |-> EmptySchema,
     new_table_schema |-> EmptySchema,
     primary_key_column |-> None,
     has_auto_increment |-> FALSE]

\* DecorateEnhancedLower with the created_at / updated_at branches before the status branch
DecorateEnhancedTimestampsFirst(openapi_type, table_name, n, col_key, primary_key_column) ==
    IF col_key = "PRI" THEN
        Put(Put(openapi_type, "readOnly", TRUE),
            "description", "Primary key for " \o table_name)
    ELSE IF Contains(n, "email") THEN
        Put(Put(Put(openapi_type, "format", "email"),
                "description", "Valid email address"),
            "example", "user@example.com")
    ELSE IF Contains(n, "phone") THEN
        Put(Put(Put(openapi_type, "pattern", "^[+]?[1-9]?[0-9]{7,15}$"),
                "description", "Phone number (7-15 digits)"),
            "example", "+1234567890")
    ELSE IF n = "priority_level_id" THEN
        Put(Put(Put(openapi_type, "minimum", 1), "maximum", 5),
            "description", "Priority level (1=Low, 2=Medium, 3=High, 4=Urgent, 5=Critical)")
    ELSE IF n = "age" THEN
        Put(Put(Put(openapi_type, "minimum", 0), "maximum", 150),
            "description", "Age in years")
    ELSE IF Contains(n, "created_at") THEN
        Put(Put(openapi_type, "description", "Record creation timestamp"), "readOnly", TRUE)
    ELSE IF Contains(n, "updated_at") THEN
        Put(Put(openapi_type, "description", "Last update timestamp"), "readOnly", TRUE)
    ELSE IF Contains(n, "status") THEN
        Put(openapi_type, "description", "Status identifier")
    ELSE IF EndsWith(n, "_id") /\ Some(n) # primary_key_column THEN
        Put(openapi_type, "description", "Foreign key reference to related entity")
    ELSE IF Contains(n, "name") THEN
        IF openapi_type["type"] = "string"
        THEN Put(Put(Put(openapi_type, "description", "Name or title"),
                     "minLength", 1), "maxLength", 255)
        ELSE Put(openapi_type, "description", "Name or title")
    ELSE IF Contains(n, "description") THEN
        IF openapi_type["type"] = "string"
        THEN Put(Put(openapi_type, "description", "Detailed description"), "maxLength", 1000)
        ELSE Put(openapi_type, "description", "Detailed description")
    ELSE openapi_type

\* mysql_to_individual_openapi.py: the if / elif chain decorating one field
\* (n: col_name.lower())
DecorateEnhancedLower(openapi_type, table_name, n, col_key, primary_key_column) ==
    IF col_key = "PRI" THEN
        Put(Put(openapi_type, "readOnly", TRUE),
            "description", "Primary key for " \o table_name)
    ELSE IF Contains(n, "email") THEN
        Put(Put(Put(openapi_type, "format", "email"),
                "description", "Valid email address"),
            "example", "user@example.com")
    ELSE IF Contains(n, "phone") THEN
        Put(Put(Put(openapi_type, "pattern", "^[+]?[1-9]?[0-9]{7,15}$"),
                "description", "Phone number (7-15 digits)"),
            "example", "+1234567890")
    ELSE IF n = "priority_level_id" THEN
        Put(Put(Put(openapi_type, "minimum", 1), "maximum", 5),
            "description", "Priority level (1=Low, 2=Medium, 3=High, 4=Urgent, 5=Critical)")
    ELSE IF n = "age" THEN
        Put(Put(Put(openapi_type, "minimum", 0), "maximum", 150),
            "description", "Age in years")
    ELSE IF Contains(n, "status") THEN
        Put(openapi_type, "description", "Status identifier")
    ELSE IF Contains(n, "created_at") THEN
        Put(Put(openapi_type, "description", "Record creation timestamp"), "readOnly", TRUE)
    ELSE IF Contains(n, "updated_at") THEN
        Put(Put(openapi_type, "description", "Last update timestamp"), "readOnly", TRUE)
    ELSE IF EndsWith(n, "_id") /\ Some(n) # primary_key_column THEN
        Put(openapi_type, "description", "Foreign key reference to related entity")
    ELSE IF Contains(n, "name") THEN
        IF openapi_type["type"] = "string"
        THEN Put(Put(Put(openapi_type, "description", "Name or title"),
                     "minLength", 1), "maxLength", 255)
        ELSE Put(openapi_type, "description", "Name or title")
    ELSE IF Contains(n, "description") THEN
        IF openapi_type["type"] = "string"
        THEN Put(Put(openapi_type, "description", "Detailed description"), "maxLength", 1000)
        ELSE Put(openapi_type, "description", "Detailed description")
    ELSE openapi_type

DecorateEnhanced(openapi_type, table_name, col_name, col_key, primary_key_column) ==
    DecorateEnhancedLower(openapi_type, table_name, Lower(col_name), col_key,
                          primary_key_column)

\* mysql_to_openapi.py: the description a column name gives (n: the name, lower-cased)
DescribeBasic(t, n) ==
    IF Contains(n, "email") THEN Put(t, "description", "Email address")
    ELSE IF Contains(n, "phone") THEN Put(t, "description", "Phone number")
    ELSE IF Contains(n, "date") THEN Put(t, "description", "Date value")
    ELSE IF EndsWith(n, "_id") THEN Put(t, "description", "Foreign key reference")
    ELSE t

\* mysql_to_openapi.py: readOnly for a primary key, then a description by name
DecorateBasic(openapi_type, col_name, col_key) ==
    DescribeBasic(IF col_key = "PRI" THEN Put(openapi_type, "readOnly", TRUE)
                  ELSE openapi_type,
                  Lower(col_name))

\* schema['properties'][col_name] = fragment
AddProperty(schema, col_name, fragment) ==
    [schema EXCEPT !.properties = OPut(@, col_name, fragment)]

\* schema['required'].append(col_name)
AddRequired(schema, col_name) ==
    [schema EXCEPT !.required = Append(@, col_name)]

\* The primary key and auto-increment tracking at the top of the loop body
TrackKey(acc, col_name, col_key, col_extra) ==
    IF col_key = "PRI"
    THEN [acc EXCEPT !.primary_key_column = Some(col_name),
                     !.has_auto_increment =
                         @ \/ Contains(Lower(col_extra), "auto_increment")]
    ELSE acc

\* column[5] if len(column) > 5 else ''
ColExtra(column) == IF Len(column) > 5 THEN column[6] ELSE ""

\* fragment.copy(), and `del` of its readOnly key when it has one
WithoutReadOnly(fragment) ==
    IF HasKey(fragment, "readOnly") THEN DelKey(fragment, "readOnly") ELSE fragment

\* The field goes into the read schema, and into its required list if not nullable
StoreRead(acc, column, fragment) ==
    [acc EXCEPT !.table_schema =
        IF column[3] # "YES"
        THEN AddRequired(AddProperty(@, column[1], fragment), column[1])
        ELSE AddProperty(@, column[1], fragment)]

\* The field goes into the write schema, and into its required list if it is not
\* nullable and not a primary key
StoreWrite(acc, column, fragment) ==
    [acc EXCEPT !.new_table_schema =
        IF column[3] # "YES" /\ column[4] # "PRI"
        THEN AddRequired(AddProperty(@, column[1], WithoutReadOnly(fragment)), column[1])
        ELSE AddProperty(@, column[1], WithoutReadOnly(fragment))]

\* StoreEnhanced with the write-schema condition of the all-in-one program, which
\* does not look at readOnly
StoreEnhancedKeepsReadOnly(acc, column, openapi_type) ==
    IF ~(column[4] = "PRI" /\ acc.has_auto_increment)
    THEN StoreWrite(StoreRead(acc, column, openapi_type), column, openapi_type)
    ELSE StoreRead(acc, column, openapi_type)

\* Lines 366-379: both schemas take the decorated field, the write schema unless the
\* column is a primary key with has_auto_increment set or the field is read-only
StoreEnhanced(acc, column, openapi_type) ==
    IF /\ ~(column[4] = "PRI" /\ acc.has_auto_increment)
       /\ ~(HasKey(openapi_type, "readOnly") /\ openapi_type["readOnly"])
    THEN StoreWrite(StoreRead(acc, column, openapi_type), column, openapi_type)
    ELSE StoreRead(acc, column, openapi_type)

\* Lines 184-197 of mysql_to_openapi.py
StoreBasic(acc, column, openapi_type) ==
    IF ~(column[4] = "PRI" /\ acc.has_auto_increment)
    THEN StoreWrite(StoreRead(acc, column, openapi_type), column, openapi_type)
    ELSE StoreRead(acc, column, openapi_type)

\* The loop body of create_enhanced_individual_table_spec after the key tracking
FieldEnhanced(acc, table_name, column) ==
    StoreEnhanced(acc, column,
                  DecorateEnhanced(mysql_type_to_openapi_type_enhanced(column[2]),
                                   table_name, column[1], column[4],
                                   acc.primary_key_column))

\* The loop body of export_mysql_to_openapi_yaml after the key tracking
FieldBasic(acc, column) ==
    StoreBasic(acc, column,
               DecorateBasic(mysql_type_to_openapi_type_basic(column[2]),
                             column[1], column[4]))

\* One iteration of the column loop of create_enhanced_individual_table_spec
ColumnStepEnhanced(table_name, column, acc) ==
    IF Len(column) < 5 THEN [acc EXCEPT !.raised = TRUE]  \* column[4]: IndexError
    ELSE FieldEnhanced(TrackKey(acc, column[1], column[4], ColExtra(column)),
                       table_name, column)

\* One iteration of the column loop of export_mysql_to_openapi_yaml
ColumnStepBasic(column, acc) ==
    IF Len(column) < 5 THEN [acc EXCEPT !.raised = TRUE]  \* column[4]: IndexError
    ELSE FieldBasic(TrackKey(acc, column[1], column[4], ColExtra(column)), column)

RECURSIVE ColumnLoop(_, _, _, _)
\* `for column in columns:` of either program; an exception ends the loop
ColumnLoop(variant, table_name, columns, acc) ==
    IF Len(columns) = 0 \/ acc.raised THEN acc
    ELSE ColumnLoop(variant, table_name, Tail(columns),
                    IF variant = "enhanced"
                    THEN ColumnStepEnhanced(table_name, Head(columns), acc)
                    ELSE ColumnStepBasic(Head(columns), acc))

---------------------------------------------------------------------------
(* Naming Transformer *)

\* table_name.capitalize()
SchemaName(table_name) == Capitalize(table_name)

\* SingularSchemaName capitalizing the singular resource name instead of removing the
\* trailing `s` of the capitalized name
SingularSchemaNameOfResource(table_name) ==
    Capitalize(IF EndsWith(table_name, "s") THEN DropLast(table_name) ELSE table_name)

\* schema_name[:-1] if schema_name.endswith('s') else schema_name
SingularSchemaName(table_name) ==
    LET schema_name == SchemaName(table_name) IN
    IF EndsWith(schema_name, "s") THEN DropLast(schema_name) ELSE schema_name

\* table_name[:-1] if table_name.endswith('s') else table_name
ResourceName(table_name) ==
    IF EndsWith(table_name, "s") THEN DropLast(table_name) ELSE table_name

NewSchemaName(variant, table_name) ==
    (IF variant = "enhanced" THEN "Create" ELSE "New") \o SingularSchemaName(table_name)

UpdateSchemaName(table_name) == "Update" \o SingularSchemaName(table_name)

\* f'#/components/schemas/{name}'
SchemaRef(name) == "#/components/schemas/" \o name

\* '#/components/responses/<name>'
ResponseRef(name) == "#/components/responses/" \o name

---------------------------------------------------------------------------
(* Resource Document Assembler *)

\* A response given inline: its description and the $ref strings of its content
InlineResponse(description, refs) == [description |-> description, content |-> refs]

\* A response given as {'$ref': ref}
RefResponse(ref) == [ref |-> ref]

\* PkType giving every primary key a string parameter
PkTypeAlwaysString(columns, primary_key_column) == "string"

\* PkType looking at the type of the first column instead of the primary key's
PkTypeOfFirstColumn(columns, primary_key_column) ==
    IF Contains(Lower(columns[1][2]), "int") THEN "integer" ELSE "string"

\* 'integer' if 'int' in <the primary key's native type, lower-cased> else 'string'
PkType(columns, primary_key_column) ==
    LET own == SelectSeq(columns, LAMBDA col : col[1] = primary_key_column[1]) IN
    IF Contains(Lower(own[1][2]), "int") THEN "integer" ELSE "string"

PathParam(primary_key_column, pk_schema, description) ==
    [name |-> primary_key_column[1], in |-> "path", required |-> TRUE,
     schema |-> pk_schema, description |-> description]

PaginationMeta ==
    [type |-> "object",
     properties |-> << <<"page", [type |-> "integer", description |-> "Current page number"]>>,
                       <<"limit", [type |-> "integer", description |-> "Items per page"]>>,
                       <<"total", [type |-> "integer", description |-> "Total number of items"]>>,
                       <<"pages", [type |-> "integer", description |-> "Total number of pages"]>>,
                       <<"has_next", [type |-> "boolean", description |-> "Whether there is a next page"]>>,
                       <<"has_prev", [type |-> "boolean", description |-> "Whether there is a previous page"]>> >>,
     required |-> <<"page", "limit", "total", "pages">>]

SharedResponses ==
    << <<"ValidationError", [description |-> "Validation error with detailed field-level errors"]>>,
       <<"NotFound", [description |-> "Resource not found"]>>,
       <<"Conflict", [description |-> "Resource conflict (duplicate, constraint violation)"]>> >>

\* The '/' path of the per-table document
IndividualCollectionPath(table_name, columns) ==
    LET schema_name == SchemaName(table_name)
        singular == SingularSchemaName(table_name)
        resource_name == ResourceName(table_name)
        query_params == add_smart_query_params(columns, table_name)
        get_base ==
            [summary |-> "List all " \o table_name,
             operationId |-> "list" \o schema_name,
             tags |-> <<Capitalize(table_name)>>,
             responses |->
                << <<"200", InlineResponse("Successfully retrieved list of " \o table_name,
                                           <<SchemaRef(schema_name), SchemaRef("PaginationMeta")>>)>>,
                   <<"400", RefResponse(ResponseRef("ValidationError"))>> >>]
        get_endpoint == IF Len(query_params) > 0
                        THEN Put(get_base, "parameters", query_params) ELSE get_base
        post_endpoint ==
            [summary |-> "Create new " \o resource_name,
             operationId |-> "create" \o singular,
             tags |-> <<Capitalize(table_name)>>,
             requestBody |-> SchemaRef(NewSchemaName("enhanced", table_name)),
             responses |->
                << <<"201", InlineResponse(Capitalize(resource_name) \o " created successfully",
                                           <<SchemaRef(schema_name)>>)>>,
                   <<"400", RefResponse(ResponseRef("ValidationError"))>>,
                   <<"409", RefResponse(ResponseRef("Conflict"))>> >>]
    IN  << <<"get", get_endpoint>>, <<"post", post_endpoint>> >>

\* The '/{<primary key>}' path of the per-table document
IndividualItemPath(table_name, columns, primary_key_column) ==
    LET schema_name == SchemaName(table_name)
        singular == SingularSchemaName(table_name)
        resource_name == ResourceName(table_name)
        pk_type == PkType(columns, primary_key_column)
        pk_schema == IF pk_type = "integer"
                     THEN [type |-> pk_type, format |-> "int64", minimum |-> 1]
                     ELSE [type |-> pk_type]
        parameters == << PathParam(primary_key_column, pk_schema,
                                   "The unique identifier of the " \o resource_name) >>
        found(text) == InlineResponse(Capitalize(resource_name) \o text, <<SchemaRef(schema_name)>>)
    IN  << <<"get",
             [summary |-> "Get " \o resource_name \o " by ID",
              operationId |-> "get" \o singular \o "ById",
              tags |-> <<Capitalize(table_name)>>,
              parameters |-> parameters,
              responses |-> << <<"200", found(" found")>>,
                               <<"404", RefResponse(ResponseRef("NotFound"))>> >>]>>,
           <<"put",
             [summary |-> "Update " \o resource_name \o " (full replace)",
              operationId |-> "update" \o singular,
              tags |-> <<Capitalize(table_name)>>,
              parameters |-> parameters,
              requestBody |-> SchemaRef(NewSchemaName("enhanced", table_name)),
              responses |-> << <<"200", found(" updated successfully")>>,
                               <<"404", RefResponse(ResponseRef("NotFound"))>>,
                               <<"400", RefResponse(ResponseRef("ValidationError"))>> >>]>>,
           <<"patch",
             [summary |-> "Partially update " \o resource_name,
              operationId |-> "patch" \o singular,
              tags |-> <<Capitalize(table_name)>>,
              parameters |-> parameters,
              requestBody |-> SchemaRef(UpdateSchemaName(table_name)),
              responses |-> << <<"200", found(" partially updated successfully")>>,
                               <<"404", RefResponse(ResponseRef("NotFound"))>>,
                               <<"400", RefResponse(ResponseRef("ValidationError"))>> >>]>>,
           <<"delete",
             [summary |-> "Delete " \o resource_name,
              operationId |-> "delete" \o singular,
              tags |-> <<Capitalize(table_name)>>,
              parameters |-> parameters,
              responses |-> << <<"204", InlineResponse(Capitalize(resource_name)
                                                          \o " deleted successfully", <<>>)>>,
                               <<"404", RefResponse(ResponseRef("NotFound"))>> >>]>> >>

\* The update schema being the create schema itself, required list and all
UpdateSchemaIsCreateSchema(new_table_schema) == new_table_schema

\* Lines 388-392: update_table_schema, the create properties with nothing required
UpdateSchema(new_table_schema) ==
    [type |-> "object",
     properties |-> new_table_schema.properties,
     required |-> <<>>]

\* Lines 381-728: the document built from the locals the column loop left
IndividualDocument(table_name, columns, loop) ==
    [raised |-> FALSE,
     openapi |-> "3.1.0",
     title |-> SchemaName(table_name) \o " Management API",
     paths |->
        IF Truthy(loop.primary_key_column)
        THEN OPut(OPut(<<>>, "/", IndividualCollectionPath(table_name, columns)),
                  "/{" \o loop.primary_key_column[1] \o "}",
                  IndividualItemPath(table_name, columns, loop.primary_key_column))
        ELSE OPut(<<>>, "/", IndividualCollectionPath(table_name, columns)),
     schemas |->
        OFromPairs(<< <<SchemaName(table_name), loop.table_schema>>,
                      <<NewSchemaName("enhanced", table_name), loop.new_table_schema>>,
                      <<UpdateSchemaName(table_name), UpdateSchema(loop.new_table_schema)>>,
                      <<"PaginationMeta", PaginationMeta>> >>),
     responses |-> SharedResponses]

\* What the column loop's outcome makes of the call: the exception, or the document
IndividualResult(table_name, columns, loop) ==
    IF loop.raised THEN [raised |-> TRUE]
    ELSE IndividualDocument(table_name, columns, loop)

\* create_enhanced_individual_table_spec: [raised |-> TRUE] when an exception leaves
\* it, else the returned document
create_enhanced_individual_table_spec(table_name, columns) ==
    IndividualResult(table_name, columns,
                     ColumnLoop("enhanced", table_name, columns, LoopStart))

\* The catalog of the all-in-one program before the table loop
EmptyCatalog ==
    [openapi |-> "3.1.0",
     title |-> "Seniorcare Management API",
     paths |-> <<>>,
     schemas |-> <<>>]

\* The '/<table>' path of the catalog
CatalogCollectionPath(table_name) ==
    LET schema_name == SchemaName(table_name)
        resource_name == ResourceName(table_name)
    IN  << <<"get",
             [summary |-> "Get all " \o table_name,
              parameters |->
                 << [in |-> "query", name |-> "limit",
                     schema |-> [type |-> "integer", minimum |-> 1, maximum |-> 1000,
                                 default |-> 100],
                     description |-> "Maximum number of results to return"],
                    [in |-> "query", name |-> "offset",
                     schema |-> [type |-> "integer", minimum |-> 0, default |-> 0],
                     description |-> "Number of results to skip"] >>,
              responses |-> << <<"200", InlineResponse("A list of " \o table_name \o ".",
                                                       <<SchemaRef(schema_name)>>)>>,
                               <<"400", InlineResponse("Invalid query parameters.", <<>>)>> >>]>>,
           <<"post",
             [summary |-> "Create a new " \o resource_name,
              requestBody |-> SchemaRef(NewSchemaName("basic", table_name)),
              responses |-> << <<"201", InlineResponse(Capitalize(resource_name)
                                                          \o " created successfully.",
                                                       <<SchemaRef(schema_name)>>)>>,
                               <<"400", InlineResponse("Invalid input data.", <<>>)>>,
                               <<"409", InlineResponse("Resource already exists.", <<>>)>> >>]>> >>

\* The '/<table>/{<primary key>}' path of the catalog
CatalogItemPath(table_name, columns, primary_key_column) ==
    LET schema_name == SchemaName(table_name)
        resource_name == ResourceName(table_name)
        pk == primary_key_column[1]
        pk_type == PkType(columns, primary_key_column)
        pk_schema == IF pk_type = "integer"
                     THEN [type |-> pk_type, format |-> "int64"]
                     ELSE [type |-> pk_type]
        param(verb) == << PathParam(primary_key_column, pk_schema,
                              "The " \o pk \o " of the " \o resource_name \o " to " \o verb \o ".") >>
        not_found == InlineResponse(Capitalize(resource_name) \o " not found.", <<>>)
    IN  << <<"get",
             [summary |-> "Get " \o resource_name \o " by " \o pk,
              parameters |-> param("retrieve"),
              responses |-> << <<"200", InlineResponse(Capitalize(resource_name) \o " found.",
                                                       <<SchemaRef(schema_name)>>)>>,
                               <<"404", not_found>> >>]>>,
           <<"put",
             [summary |-> "Update " \o resource_name \o " by " \o pk,
              parameters |-> param("update"),
              requestBody |-> SchemaRef(NewSchemaName("basic", table_name)),
              responses |-> << <<"200", InlineResponse(Capitalize(resource_name)
                                                          \o " updated successfully.",
                                                       <<SchemaRef(schema_name)>>)>>,
                               <<"400", InlineResponse("Invalid input data.", <<>>)>>,
                               <<"404", not_found>> >>]>>,
           <<"delete",
             [summary |-> "Delete " \o resource_name \o " by " \o pk,
              parameters |-> param("delete"),
              responses |-> << <<"204", InlineResponse(Capitalize(resource_name)
                                                          \o " deleted successfully.", <<>>)>>,
                               <<"404", not_found>> >>]>> >>

\* CatalogAddSchemas storing the write schema under "New" + the plural schema name
CatalogAddSchemasPluralKey(schemas, table_name, loop) ==
    OPut(OPut(schemas, SchemaName(table_name), loop.table_schema),
         "New" \o SchemaName(table_name), loop.new_table_schema)

\* components.schemas[schema_name] = table_schema;
\* components.schemas[new_schema_name] = new_table_schema
CatalogAddSchemas(schemas, table_name, loop) ==
    OPut(OPut(schemas, SchemaName(table_name), loop.table_schema),
         NewSchemaName("basic", table_name), loop.new_table_schema)

\* The collection path, and the item path if a primary key was found
CatalogAddPaths(paths, table_name, columns, loop) ==
    IF Truthy(loop.primary_key_column)
    THEN OPut(OPut(paths, "/" \o table_name, CatalogCollectionPath(table_name)),
              "/" \o table_name \o "/{" \o loop.primary_key_column[1] \o "}",
              CatalogItemPath(table_name, columns, loop.primary_key_column))
    ELSE OPut(paths, "/" \o table_name, CatalogCollectionPath(table_name))

\* AllInOneResult registering the schemas and paths of a table whatever the column
\* loop raised
AllInOneResultEmitsOnError(catalog, table_name, columns, loop) ==
    [raised |-> loop.raised,
     openapi_spec |->
        [catalog EXCEPT
           !.schemas = CatalogAddSchemas(@, table_name, loop),
           !.paths = CatalogAddPaths(@, table_name, columns, loop)],
     loop |-> loop]

\* Lines 199-401: what the table loop body does to the catalog once the column loop
\* has ended; `loop` holds the schemas it built from this table's columns
AllInOneResult(catalog, table_name, columns, loop) ==
    IF loop.raised
    THEN [raised |-> TRUE, openapi_spec |-> catalog, loop |-> loop]
    ELSE [raised |-> FALSE,
          openapi_spec |->
             [catalog EXCEPT
                !.schemas = CatalogAddSchemas(@, table_name, loop),
                !.paths = CatalogAddPaths(@, table_name, columns, loop)],
          loop |-> loop]

\* The body of the table loop of export_mysql_to_openapi_yaml after DESCRIBE returned
\* a non-empty column list: [raised, openapi_spec], the catalog as the body left it
AllInOneTable(catalog, table_name, columns) ==
    AllInOneResult(catalog, table_name, columns,
                   ColumnLoop("basic", table_name, columns, LoopStart))

\* The shared Error schema added after the table loop
ErrorSchema ==
    [type |-> "object",
     properties |-> << <<"error", [type |-> "string", description |-> "Error message"]>>,
                       <<"code", [type |-> "integer", description |-> "Error code"]>>,
                       <<"details", [type |-> "object", description |-> "Additional error details"]>> >>,
     required |-> <<"error", "code">>]

\* Every $ref string of one operation
OperationRefs(op) ==
    (IF HasKey(op, "requestBody") THEN {op["requestBody"]} ELSE {})
    \cup UNION { IF HasKey(op["responses"][i][2], "ref")
                 THEN {op["responses"][i][2]["ref"]}
                 ELSE Range(op["responses"][i][2]["content"])
                 : i \in 1..Len(op["responses"]) }

\* Every $ref string under `paths`
PathRefs(paths) ==
    UNION { UNION { OperationRefs(paths[i][2][j][2]) : j \in 1..Len(paths[i][2]) }
            : i \in 1..Len(paths) }

---------------------------------------------------------------------------
(* Inputs of the function calls *)

Variants == {"basic", "enhanced"}

\* Native type strings as DESCRIBE reports them
BaseTypeStrings ==
    { "int(11)", "bigint(20)", "bigint unsigned", "tinyint(1)", "tinyint(1) unsigned",
      "tinyint(4)", "smallint(6)", "float", "double", "decimal(10,2)",
      "varchar(255)", "char(1)", "text", "datetime", "timestamp", "date", "time",
      "year(4)", "bool", "json", "enum('a','b')", "enum('int','text')", "blob",
      "point", "email", "bit(1)", "set('x','y')" }

\* ... and the same strings in other letter cases
TypeStrings ==
    BaseTypeStrings \cup {Upper(t) : t \in BaseTypeStrings}
                    \cup {Capitalize(t) : t \in BaseTypeStrings}

MaxCols == 2

\* The lists of at most MaxCols rows of `pool` in which no column name repeats
ColumnLists(pool) ==
    { cs \in UNION { [1..k -> pool] : k \in 0..MaxCols } :
        \A a, b \in 1..Len(cs) : a # b => cs[a][1] # cs[b][1] }

AdvisorNames ==
    { "users", "Users", "tasks", "user_tasks", "tasknotifications", "emergencycontacts",
      "notifications", "categories", "products", "audit_log", "temp_users",
      "backup_tasks", "categorypriority" }

AdvisorColumnPool ==
    { Col("id", "int(11)", "NO", "PRI", "auto_increment"),
      Col("full_name", "varchar(100)", "NO", "", ""),
      Col("notes", "text", "YES", "", ""),
      Col("due_date", "date", "YES", "", ""),
      Col("created_at", "timestamp", "YES", "", ""),
      Col("code", "char(2)", "NO", "", "") }

\* Column lists longer than MaxCols: four text columns, and eleven columns
WideColumns ==
    << Col("id", "bigint(20)", "NO", "PRI", "auto_increment"),
       Col("title", "varchar(50)", "NO", "", ""),
       Col("summary", "VARCHAR(200)", "YES", "", ""),
       Col("body", "longtext", "YES", "", ""),
       Col("footer", "text", "YES", "", ""),
       Col("created_at", "datetime", "NO", "", ""),
       Col("c7", "int(11)", "YES", "", ""),
       Col("c8", "int(11)", "YES", "", ""),
       Col("c9", "int(11)", "YES", "", ""),
       Col("c10", "int(11)", "YES", "", ""),
       Col("c11", "int(11)", "YES", "", "") >>

AdvisorColumnLists ==
    ColumnLists(AdvisorColumnPool) \cup {SubSeq(WideColumns, 1, 5), WideColumns}

AssemblerNames == {"users", "tasks", "status"}

AssemblerColumnPool ==
    { Col("id", "int(11)", "NO", "PRI", "auto_increment"),
      Col("code", "varchar(10)", "NO", "PRI", ""),
      Col("tenant_id", "bigint(20)", "NO", "PRI", ""),
      Col("flag", "tinyint(1)", "NO", "PRI", ""),
      Col("email", "varchar(255)", "NO", "", ""),
      Col("created_at", "timestamp", "YES", "", ""),
      Col("status_updated_at", "datetime", "YES", "", ""),
      Col("status_id", "int(11)", "NO", "MUL", ""),
      Col("phone_email", "varchar(64)", "YES", "", ""),
      Col("age", "varchar(3)", "YES", "", ""),
      Col("email_verified", "tinyint(1)", "NO", "", ""),
      Col("full_name", "varchar(100)", "NO", "", ""),
      Col("description", "text", "YES", "", ""),
      Col("priority_level_id", "int(11)", "YES", "", ""),
      Col("user_id", "int(11)", "NO", "MUL", ""),
      <<"broken", "int(11)">> }

\* The column list of the `users` round-trip scenario
RoundTripColumns ==
    << Col("id", "int(11)", "NO", "PRI", "auto_increment"),
       Col("email", "varchar(255)", "NO", "", ""),
       Col("created_at", "timestamp", "YES", "", "") >>

AssemblerColumnLists == ColumnLists(AssemblerColumnPool) \cup {RoundTripColumns}

MapperCalls ==
    [fn : {"mysql_type_to_openapi_type"}, variant : Variants, mysql_type : TypeStrings]

AdvisorCalls ==
    [fn : {"add_smart_query_params"}, table_name : AdvisorNames, columns : AdvisorColumnLists]

\* Table names in other letter cases and without a trailing `s`
NamingNames == {"USERS", "userTasks", "category"}

AssemblerCalls ==
    [fn : {"create_enhanced_individual_table_spec", "all_in_one_table"},
     table_name : AssemblerNames, columns : AssemblerColumnLists]
    \cup [fn : {"create_enhanced_individual_table_spec", "all_in_one_table"},
          table_name : NamingNames, columns : {RoundTripColumns}]

---------------------------------------------------------------------------
(* The schema source and the file system of a run *)

\* The tables of the database a run reads, with what DESCRIBE returns for each
Database ==
    [ users |-> << Col("id", "int(11)", "NO", "PRI", "auto_increment"),
                   Col("email", "varchar(255)", "NO", "", ""),
                   Col("created_at", "timestamp", "YES", "", "") >>,
      tasks |-> << Col("id", "bigint(20)", "NO", "PRI", "auto_increment"),
                   Col("title", "varchar(100)", "NO", "", ""),
                   Col("due_date", "date", "YES", "", "") >>,
      task |-> << Col("code", "varchar(10)", "NO", "PRI", ""),
                  Col("notes", "text", "YES", "", "") >>,
      error |-> << Col("message", "text", "NO", "", "") >>,
      audit_log |-> << Col("id", "int(11)", "NO", "PRI", "auto_increment"),
                       Col("entry", "json", "YES", "", "") >>,
      items |-> << Col("sku", "char(8)", "NO", "PRI", ""),
                   Col("price", "decimal(10,2)", "NO", "", "") >>,
      nocols |-> <<>>,
      broken |-> << Col("id", "int(11)", "NO", "PRI", "auto_increment"),
                    <<"half", "int(11)">> >> ]
    @@ ("bad name" :> << Col("id", "int(11)", "NO", "PRI", "auto_increment") >>)

\* Values a SELECT returns, by Python type
PyNone == [py |-> "NoneType"]
PyInt(n) == [py |-> "int", v |-> n]
PyStr(text) == [py |-> "str", v |-> text]
PyFloat(repr) == [py |-> "float", v |-> repr]
\* a datetime, date or time with its isoformat()
PyTemporal(type, iso) == [py |-> type, iso |-> iso]
\* a Decimal with the repr of float(value)
PyDecimal(text, float) == [py |-> "Decimal", v |-> text, float |-> float]
\* bytes with whether they are valid UTF-8, their decoding if so, and their hex()
PyBytes(utf8, decoded, hex) == [py |-> "bytes", utf8 |-> utf8, decoded |-> decoded, hex |-> hex]

\* What SELECT * returns for each table of the database
Rows ==
    [ users |-> << <<PyInt(1), PyStr("a@example.com"),
                     PyTemporal("datetime", "2024-01-02T03:04:05")>>,
                   <<PyInt(2), PyStr("b@example.com"), PyNone>> >>,
      tasks |-> <<>>,
      task |-> << <<PyStr("T1"), PyBytes(TRUE, "note", "6e6f7465")>> >>,
      error |-> << <<PyBytes(FALSE, "", "fffe")>> >>,
      audit_log |-> << <<PyInt(7), PyStr("{}")>> >>,
      items |-> << <<PyStr("SKU00001"), PyDecimal("9.50", "9.5")>>,
                   <<PyStr("SKU00002"), PyDecimal("12.00", "12.0")>>,
                   <<PyStr("SKU00003"), PyDecimal("0.25", "0.25")>> >>,
      nocols |-> <<>>,
      broken |-> << <<PyInt(1)>> >> ]
    @@ ("bad name" :> << <<PyInt(1)>> >>)

\* The names SHOW TABLES may list: the tables above (one with white space around its
\* name, one with a name the validation rejects) and a table dropped since (ghost)
ListedNames ==
    { "users", "tasks", "task", "error", "audit_log", " items ", "nocols", "broken",
      "ghost", "bad name" }

MaxTables == 2

\* The listings: at most MaxTables names, none twice
Listings ==
    { ts \in UNION { [1..k -> ListedNames] : k \in 0..MaxTables } :
        \A a, b \in 1..Len(ts) : a # b => ts[a] # ts[b] }

\* The working directory is empty, or holds the output tree of an earlier run
InitialDirs ==
    { {}, {"exports", "exports/openapi_specs", "exports/individual_apis_enhanced",
           "exports/yaml_data"} }

\* The path and every ancestor of it: what os.makedirs(path, exist_ok=True) ensures
PathAndAncestors(path) ==
    {path} \cup { SubSeq(path, 1, k - 1) : k \in {j \in 1..Len(path) : CharAt(path, j) = "/"} }

\* The directory of a file path, "" for a bare file name
DirName(path) ==
    LET slashes == {j \in 1..Len(path) : CharAt(path, j) = "/"} IN
    IF slashes = {} THEN ""
    ELSE SubSeq(path, 1, (CHOOSE j \in slashes : \A k \in slashes : k <= j) - 1)

\* Whether open(path, 'w') finds the directory it needs
CanOpen(ds, path) == DirName(path) = "" \/ DirName(path) \in ds

AllInOneMakeDir == "openapi_specs"
AllInOneOutputFile == "exports/openapi_specs/seniorcare_api3.0.yaml"
IndividualDir == "exports/individual_apis_enhanced"
IndividualOutputFile(table_name) == IndividualDir \o "/" \o table_name \o "_api.yaml"
IndividualIndexFile == IndividualDir \o "/api_index.yaml"
\* The file name the index records for a table
IndexEntry(api) == api \o "_api_v2.1.yaml"
YamlDir == "exports/yaml_data"
YamlOutputFile(table_name) == YamlDir \o "/" \o table_name \o ".yaml"
YamlMetadataFile == YamlDir \o "/export_metadata.yaml"

\* What a file holds when yaml.dump raised after open(path, 'w') had created it
PartialFile == [partial |-> TRUE]

Event(ev, table) == [ev |-> ev, table |-> table]

---------------------------------------------------------------------------
(* Initial states *)

Idle == "idle"

InitFn ==
    /\ mode = "fn"
    /\ \/ call \in MapperCalls
       \/ call \in AdvisorCalls
       \/ call \in AssemblerCalls
    /\ ret = None
    /\ pc = "called"
    /\ program = Idle /\ connection = "none" /\ raw_tables = <<>> /\ idx = 0
    /\ valid_tables = <<>> /\ invalid_tables = <<>>
    /\ openapi_spec = EmptyCatalog /\ processed_tables = <<>> /\ built = <<>>
    /\ generated_files = <<>> /\ searchable_apis = <<>> /\ system_apis = <<>>
    /\ exported_files = <<>> /\ total_records = 0
    /\ dirs = {} /\ files = <<>> /\ log = <<>> /\ outcome = Idle

InitRun ==
    /\ mode = "run"
    /\ call = None /\ ret = None
    /\ pc = "connect"
    /\ program \in {"all_in_one", "individual", "yaml"}
    /\ connection = "none"
    /\ raw_tables \in Listings
    /\ idx = 0
    /\ valid_tables = <<>> /\ invalid_tables = <<>>
    /\ openapi_spec = EmptyCatalog /\ processed_tables = <<>> /\ built = <<>>
    /\ generated_files = <<>> /\ searchable_apis = <<>> /\ system_apis = <<>>
    /\ exported_files = <<>> /\ total_records = 0
    /\ dirs \in InitialDirs /\ files = <<>> /\ log = <<>>
    /\ outcome = "running"

Init == InitFn \/ InitRun

---------------------------------------------------------------------------
(* Function calls *)

CallTypeMapper ==
    /\ mode = "fn" /\ pc = "called"
    /\ call.fn = "mysql_type_to_openapi_type"
    /\ ret' = mysql_type_to_openapi_type(call.variant, call.mysql_type)
    /\ pc' = "returned"
    /\ UNCHANGED <<mode, call, runVars>>

CallAdvisor ==
    /\ mode = "fn" /\ pc = "called"
    /\ call.fn = "add_smart_query_params"
    /\ ret' = add_smart_query_params(call.columns, call.table_name)
    /\ pc' = "returned"
    /\ UNCHANGED <<mode, call, runVars>>

CallIndividualAssembler ==
    /\ mode = "fn" /\ pc = "called"
    /\ call.fn = "create_enhanced_individual_table_spec"
    /\ ret' = create_enhanced_individual_table_spec(call.table_name, call.columns)
    /\ pc' = "returned"
    /\ UNCHANGED <<mode, call, runVars>>

\* One pass of the all-in-one table loop body over an empty catalog
CallAllInOneTable ==
    /\ mode = "fn" /\ pc = "called"
    /\ call.fn = "all_in_one_table"
    /\ Len(call.columns) > 0
    /\ ret' = AllInOneTable(EmptyCatalog, call.table_name, call.columns)
    /\ pc' = "returned"
    /\ UNCHANGED <<mode, call, runVars>>

Returned(fn) == mode = "fn" /\ pc = "returned" /\ call.fn = fn

---------------------------------------------------------------------------
(* A run of export_mysql_to_openapi_yaml, export_enhanced_individual_openapi_specs *)
(* or export_mysql_to_yaml                                                         *)

\* An exception reaches the run-level `except Exception`
RunError ==
    /\ outcome' = "run_error"
    /\ log' = Append(log, Event("run_error", ""))
    /\ pc' = "done"

\* An early `return`
ReturnEarly(ev) ==
    /\ outcome' = "returned"
    /\ log' = Append(log, Event(ev, ""))
    /\ pc' = "done"

\* pymysql.connect(...)
Connect ==
    /\ mode = "run" /\ pc = "connect"
    /\ \E ok \in BOOLEAN :
        IF ok
        THEN /\ connection' = "open"
             /\ pc' = "show_tables"
             /\ UNCHANGED <<log, outcome>>
        ELSE /\ RunError
             /\ UNCHANGED connection
    /\ UNCHANGED <<mode, fnVars, exported_files, total_records,
                   program, raw_tables, idx, valid_tables, invalid_tables,
                   openapi_spec, processed_tables, built, generated_files,
                   searchable_apis, system_apis, dirs, files>>

\* SHOW TABLES, and `if not raw_tables: return`
ShowTables ==
    /\ mode = "run" /\ pc = "show_tables"
    /\ \E ok \in BOOLEAN :
        IF ~ok THEN RunError /\ UNCHANGED idx
        ELSE IF Len(raw_tables) = 0 THEN ReturnEarly("no_tables") /\ UNCHANGED idx
        ELSE /\ pc' = "validate"
             /\ idx' = 1
             /\ UNCHANGED <<log, outcome>>
    /\ UNCHANGED <<mode, fnVars, exported_files, total_records,
                   program, connection, raw_tables, valid_tables,
                   invalid_tables, openapi_spec, processed_tables, built,
                   generated_files, searchable_apis, system_apis, dirs, files>>

\* table_exists: DESCRIBE succeeds for a table of the database
table_exists(table_name) == table_name \in DOMAIN Database

\* One iteration of `for table_tuple in raw_tables:`
ValidateTable ==
    /\ mode = "run" /\ pc = "validate" /\ idx <= Len(raw_tables)
    /\ \E table_name \in {Strip(raw_tables[idx])}, db_ok \in BOOLEAN :
        IF is_valid_table_name(table_name) /\ ~db_ok
        THEN \* DESCRIBE raised something other than ProgrammingError
             RunError /\ UNCHANGED <<idx, valid_tables, invalid_tables>>
        ELSE /\ IF is_valid_table_name(table_name) /\ table_exists(table_name)
                THEN /\ valid_tables' = Append(valid_tables, table_name)
                     /\ UNCHANGED <<invalid_tables, log>>
                ELSE /\ invalid_tables' = Append(invalid_tables, table_name)
                     /\ log' = Append(log, Event("skip_invalid", table_name))
                     /\ UNCHANGED valid_tables
             /\ idx' = idx + 1
             /\ UNCHANGED <<pc, outcome>>
    /\ UNCHANGED <<mode, fnVars, exported_files, total_records,
                   program, connection, raw_tables, openapi_spec,
                   processed_tables, built, generated_files, searchable_apis,
                   system_apis, dirs, files>>

\* `if not valid_tables: return`, then os.makedirs(...) and the start of the table loop
StartTableLoop ==
    /\ mode = "run" /\ pc = "validate" /\ idx > Len(raw_tables)
    /\ IF Len(valid_tables) = 0
       THEN ReturnEarly("no_valid") /\ UNCHANGED <<idx, dirs>>
       ELSE /\ dirs' = dirs \cup PathAndAncestors(IF program = "all_in_one" THEN AllInOneMakeDir
                                             ELSE IF program = "individual" THEN IndividualDir
                                             ELSE YamlDir)
            /\ idx' = 1
            /\ pc' = "tables"
            /\ UNCHANGED <<log, outcome>>
    /\ UNCHANGED <<mode, fnVars, exported_files, total_records,
                   program, connection, raw_tables, valid_tables,
                   invalid_tables, openapi_spec, processed_tables, built,
                   generated_files, searchable_apis, system_apis, files>>

\* The table loop goes on to the next table
NextIteration ==
    /\ idx' = idx + 1
    /\ UNCHANGED <<pc, outcome>>

\* The per-table handler with a re-raise: the run-level handler ends the run
PerTableExceptReraises(printed, table_name) ==
    /\ log' = log \o printed \o <<Event("error_table", table_name), Event("run_error", "")>>
    /\ outcome' = "run_error"
    /\ pc' = "done"
    /\ UNCHANGED idx

\* `except Exception as table_error:` of a table loop: the error is printed (after
\* what the iteration had printed before it) and the loop continues
PerTableExcept(printed, table_name) ==
    /\ log' = log \o printed \o <<Event("error_table", table_name)>>
    /\ NextIteration

\* The schemas `built` remembers for a processed table
Built(table_name, loop) ==
    [table |-> table_name,
     table_schema |-> loop.table_schema,
     new_table_schema |-> loop.new_table_schema]

\* One iteration of the table loop of export_mysql_to_openapi_yaml
ProcessTableAllInOne ==
    /\ mode = "run" /\ pc = "tables" /\ program = "all_in_one"
    /\ idx <= Len(valid_tables)
    /\ \E table_name \in {valid_tables[idx]}, describe_ok \in BOOLEAN :
        IF ~describe_ok
        THEN /\ PerTableExcept(<<>>, table_name)
             /\ UNCHANGED <<openapi_spec, processed_tables, built>>
        ELSE IF Len(Database[table_name]) = 0
        THEN /\ log' = Append(log, Event("skip_empty", table_name))
             /\ NextIteration
             /\ UNCHANGED <<openapi_spec, processed_tables, built>>
        ELSE \E r \in {AllInOneTable(openapi_spec, table_name, Database[table_name])} :
             /\ openapi_spec' = r.openapi_spec
             /\ IF r.raised
                THEN /\ PerTableExcept(<<>>, table_name)
                     /\ UNCHANGED <<processed_tables, built>>
                ELSE /\ processed_tables' = Append(processed_tables, table_name)
                     /\ built' = Append(built, Built(table_name, r.loop))
                     /\ log' = Append(log, Event("generated", table_name))
                     /\ NextIteration
    /\ UNCHANGED <<mode, fnVars, exported_files, total_records,
                   program, connection, raw_tables, valid_tables,
                   invalid_tables, generated_files, searchable_apis, system_apis,
                   dirs, files>>

\* After the table loop of export_mysql_to_openapi_yaml: the Error schema, the
\* catalog file, connection.close()
FinishAllInOne ==
    /\ mode = "run" /\ pc = "tables" /\ program = "all_in_one"
    /\ idx > Len(valid_tables)
    /\ IF Len(processed_tables) = 0
       THEN ReturnEarly("no_processed") /\ UNCHANGED <<openapi_spec, files, connection>>
       ELSE /\ openapi_spec' = [openapi_spec EXCEPT !.schemas = OPut(@, "Error", ErrorSchema)]
            /\ \E write_ok \in BOOLEAN :
                IF CanOpen(dirs, AllInOneOutputFile) /\ write_ok
                THEN /\ files' = OPut(files, AllInOneOutputFile, openapi_spec')
                     /\ connection' = "closed"
                     /\ outcome' = "completed"
                     /\ log' = Append(log, Event("completed", ""))
                     /\ pc' = "done"
                ELSE /\ RunError
                     /\ files' = IF CanOpen(dirs, AllInOneOutputFile)
                                 THEN OPut(files, AllInOneOutputFile, PartialFile)
                                 ELSE files
                     /\ UNCHANGED connection
    /\ UNCHANGED <<mode, fnVars, exported_files, total_records,
                   program, raw_tables, idx, valid_tables, invalid_tables,
                   processed_tables, built, generated_files, searchable_apis,
                   system_apis, dirs>>

\* One iteration of the table loop of export_enhanced_individual_openapi_specs
ProcessTableIndividual ==
    /\ mode = "run" /\ pc = "tables" /\ program = "individual"
    /\ idx <= Len(valid_tables)
    /\ \E table_name \in {valid_tables[idx]}, describe_ok \in BOOLEAN, write_ok \in BOOLEAN :
        IF ~describe_ok
        THEN /\ PerTableExcept(<<>>, table_name)
             /\ UNCHANGED <<generated_files, searchable_apis, system_apis, files>>
        ELSE IF Len(Database[table_name]) = 0
        THEN /\ log' = Append(log, Event("skip_empty", table_name))
             /\ NextIteration
             /\ UNCHANGED <<generated_files, searchable_apis, system_apis, files>>
        ELSE \E doc \in {create_enhanced_individual_table_spec(table_name,
                                                               Database[table_name])},
                output_file \in {IndividualOutputFile(table_name)} :
             IF doc.raised \/ ~CanOpen(dirs, output_file)
             THEN /\ PerTableExcept(<<>>, table_name)
                  /\ UNCHANGED <<generated_files, searchable_apis, system_apis, files>>
             ELSE IF ~write_ok
             THEN /\ files' = OPut(files, output_file, PartialFile)
                  /\ PerTableExcept(<<>>, table_name)
                  /\ UNCHANGED <<generated_files, searchable_apis, system_apis>>
             ELSE /\ files' = OPut(files, output_file, doc)
                  /\ generated_files' = Append(generated_files, output_file)
                  /\ IF should_generate_query_params_individual(table_name)
                     THEN /\ searchable_apis' = Append(searchable_apis, table_name)
                          /\ UNCHANGED system_apis
                     ELSE /\ system_apis' = Append(system_apis, table_name)
                          /\ UNCHANGED searchable_apis
                  \* line 820 reads status_icon, which no line assigns: NameError,
                  \* caught by the per-table handler
                  /\ PerTableExcept(<<Event("generated", table_name)>>, table_name)
    /\ UNCHANGED <<mode, fnVars, exported_files, total_records,
                   program, connection, raw_tables, valid_tables,
                   invalid_tables, openapi_spec, processed_tables, built, dirs>>

\* The index document of the per-table program
IndexContent ==
    [version |-> "2.1.0",
     searchable |-> [k \in 1..Len(searchable_apis) |->
                        <<searchable_apis[k], IndexEntry(searchable_apis[k])>>],
     system |-> [k \in 1..Len(system_apis) |->
                        <<system_apis[k], IndexEntry(system_apis[k])>>]]

\* After the table loop of export_enhanced_individual_openapi_specs:
\* connection.close(), the summary, the index file
FinishIndividual ==
    /\ mode = "run" /\ pc = "tables" /\ program = "individual"
    /\ idx > Len(valid_tables)
    /\ connection' = "closed"
    /\ pc' = "done"
    \* "Generation Completed!" is printed before the index file is opened
    /\ \E write_ok \in BOOLEAN :
        IF CanOpen(dirs, IndividualIndexFile) /\ write_ok
        THEN /\ files' = OPut(files, IndividualIndexFile, IndexContent)
             /\ outcome' = "completed"
             /\ log' = Append(log, Event("completed", ""))
        ELSE /\ outcome' = "run_error"
             /\ log' = log \o <<Event("completed", ""), Event("run_error", "")>>
             /\ files' = IF CanOpen(dirs, IndividualIndexFile)
                         THEN OPut(files, IndividualIndexFile, PartialFile) ELSE files
    /\ UNCHANGED <<mode, fnVars, exported_files, total_records,
                   program, raw_tables, idx, valid_tables, invalid_tables,
                   openapi_spec, processed_tables, built, generated_files,
                   searchable_apis, system_apis, dirs>>

---------------------------------------------------------------------------
(* export_mysql_to_yaml *)

\* mysql_to_yaml.py: convert_mysql_value
convert_mysql_value(value) ==
    IF value.py = "NoneType" THEN PyNone
    ELSE IF value.py \in {"datetime", "date", "time"} THEN PyStr(value.iso)
    ELSE IF value.py = "Decimal" THEN PyFloat(value.float)
    ELSE IF value.py = "bytes" THEN
        IF value.utf8 THEN PyStr(value.decoded)
        ELSE PyStr(value.hex)  \* UnicodeDecodeError
    ELSE value

\* row_dict of one row: column name -> converted value, in column order
RowDict(columns, row) ==
    [i \in 1..Len(columns) |-> <<columns[i], convert_mysql_value(row[i])>>]

\* Lines 107-120: table_data, or the IndexError of row[i] for a row with fewer
\* values than DESCRIBE lists columns
TableData(columns_info, rows) ==
    IF \E r \in 1..Len(rows) : Len(rows[r]) < Len(columns_info)
    THEN [raised |-> TRUE]
    ELSE [raised |-> FALSE,
          table_data |-> [r \in 1..Len(rows) |->
                            RowDict([i \in 1..Len(columns_info) |-> columns_info[i][1]],
                                    rows[r])]]

\* One iteration of the table loop of export_mysql_to_yaml
ProcessTableYaml ==
    /\ mode = "run" /\ pc = "tables" /\ program = "yaml"
    /\ idx <= Len(valid_tables)
    /\ \E table_name \in {valid_tables[idx]},
          select_ok \in BOOLEAN, describe_ok \in BOOLEAN, write_ok \in BOOLEAN :
        \E file_path \in {YamlOutputFile(table_name)} :
        IF ~select_ok
        THEN /\ PerTableExcept(<<>>, table_name)
             /\ UNCHANGED <<files, exported_files, total_records>>
        ELSE IF Len(Rows[table_name]) = 0
        THEN IF ~CanOpen(dirs, file_path)
             THEN /\ PerTableExcept(<<>>, table_name)
                  /\ UNCHANGED <<files, exported_files, total_records>>
             ELSE IF ~write_ok
             THEN /\ files' = OPut(files, file_path, PartialFile)
                  /\ PerTableExcept(<<>>, table_name)
                  /\ UNCHANGED <<exported_files, total_records>>
             ELSE /\ files' = OPut(files, file_path, <<>>)
                  /\ exported_files' = Append(exported_files, <<table_name, file_path, 0>>)
                  /\ log' = Append(log, Event("generated", table_name))
                  /\ NextIteration
                  /\ UNCHANGED total_records
        ELSE \E data \in {TableData(Database[table_name], Rows[table_name])} :
             IF ~describe_ok \/ data.raised \/ ~CanOpen(dirs, file_path)
             THEN /\ PerTableExcept(<<>>, table_name)
                  /\ UNCHANGED <<files, exported_files, total_records>>
             ELSE IF ~write_ok
             THEN /\ files' = OPut(files, file_path, PartialFile)
                  /\ PerTableExcept(<<>>, table_name)
                  /\ UNCHANGED <<exported_files, total_records>>
             ELSE /\ files' = OPut(files, file_path, data.table_data)
                  /\ exported_files' =
                        Append(exported_files,
                               <<table_name, file_path, Len(data.table_data)>>)
                  /\ total_records' = total_records + Len(data.table_data)
                  /\ log' = Append(log, Event("generated", table_name))
                  /\ NextIteration
    /\ UNCHANGED <<mode, fnVars, program, connection, raw_tables, valid_tables,
                   invalid_tables, openapi_spec, processed_tables, built,
                   generated_files, searchable_apis, system_apis, dirs>>

\* Metadata counting the valid tables instead of the exported files
MetadataCountsValidTables ==
    [database |-> "seniorcare",
     total_tables |-> Len(valid_tables),
     total_records |-> total_records,
     tables |-> [k \in 1..Len(exported_files) |->
                    [name |-> exported_files[k][1],
                     file |-> exported_files[k][1] \o ".yaml",
                     records |-> exported_files[k][3]]]]

\* The metadata document of export_mysql_to_yaml
Metadata ==
    [database |-> "seniorcare",
     total_tables |-> Len(exported_files),
     total_records |-> total_records,
     tables |-> [k \in 1..Len(exported_files) |->
                    [name |-> exported_files[k][1],
                     file |-> exported_files[k][1] \o ".yaml",
                     records |-> exported_files[k][3]]]]

\* After the table loop of export_mysql_to_yaml: connection.close(), the summary,
\* the metadata file
FinishYaml ==
    /\ mode = "run" /\ pc = "tables" /\ program = "yaml"
    /\ idx > Len(valid_tables)
    /\ connection' = "closed"
    /\ pc' = "done"
    \* "Export completed successfully!" is printed before the metadata file is opened
    /\ \E write_ok \in BOOLEAN :
        IF CanOpen(dirs, YamlMetadataFile) /\ write_ok
        THEN /\ files' = OPut(files, YamlMetadataFile, Metadata)
             /\ outcome' = "completed"
             /\ log' = Append(log, Event("completed", ""))
        ELSE /\ outcome' = "run_error"
             /\ log' = log \o <<Event("completed", ""), Event("run_error", "")>>
             /\ files' = IF CanOpen(dirs, YamlMetadataFile)
                         THEN OPut(files, YamlMetadataFile, PartialFile) ELSE files
    /\ UNCHANGED <<mode, fnVars, program, raw_tables, idx, valid_tables, invalid_tables,
                   openapi_spec, processed_tables, built, generated_files,
                   searchable_apis, system_apis, exported_files, total_records, dirs>>

Next ==
    \/ CallTypeMapper
    \/ CallAdvisor
    \/ CallIndividualAssembler
    \/ CallAllInOneTable
    \/ Connect
    \/ ShowTables
    \/ ValidateTable
    \/ StartTableLoop
    \/ ProcessTableAllInOne
    \/ FinishAllInOne
    \/ ProcessTableIndividual
    \/ FinishIndividual
    \/ ProcessTableYaml
    \/ FinishYaml

Spec == Init /\ [][Next]_vars

---------------------------------------------------------------------------
(* Schema Assembler and catalog properties *)

IndividualReturned == Returned("create_enhanced_individual_table_spec")

AllInOneReturned == Returned("all_in_one_table")

\* What the claim says of a primary key column and the write schema of its table
KeyInWriteSchema(column, write_schema) ==
    IF Contains(Lower(column[6]), "auto_increment")
    THEN ~OHas(write_schema.properties, column[1])
    ELSE /\ OHas(write_schema.properties, column[1])
         /\ column[1] \in Range(write_schema.required)

\* The same of a table with one primary key column
SingleKeyInWriteSchema(columns, write_schema) ==
    \A i \in 1..Len(columns) :
        (columns[i][4] = "PRI" /\ \A j \in 1..Len(columns) : columns[j][4] = "PRI" => j = i)
        => KeyInWriteSchema(columns[i], write_schema)

\* C1: in both variants and for any column list, a primary key that is not
\* auto-increment is among the properties of the write schema and in its required
\* list, and an auto-increment primary key is absent from the write schema.
C1_PrimaryKeyInWriteSchema ==
    /\ (IndividualReturned /\ ~ret.raised)
        => SingleKeyInWriteSchema(call.columns,
                                  OGet(ret.schemas, NewSchemaName("enhanced", call.table_name)))
    /\ (AllInOneReturned /\ ~ret.raised)
        => SingleKeyInWriteSchema(call.columns,
                                  OGet(ret.openapi_spec.schemas,
                                       NewSchemaName("basic", call.table_name)))

\* Whether every $ref under the paths of a document names an entry of the document's
\* own components.schemas or components.responses
RefsResolve(doc) ==
    \A ref \in PathRefs(doc.paths) :
        \/ \E name \in OKeySet(doc.schemas) : ref = "#/components/schemas/" \o name
        \/ /\ HasKey(doc, "responses")
           /\ \E name \in OKeySet(doc.responses) : ref = "#/components/responses/" \o name

\* C2: every $ref of every generated document resolves within the document: the
\* per-table document of any table name and column list, the catalog after any
\* sequence of processed, skipped and failed tables, and every document written.
C2_RefsResolve ==
    /\ (IndividualReturned /\ ~ret.raised) => RefsResolve(ret)
    /\ AllInOneReturned => RefsResolve(ret.openapi_spec)
    /\ (mode = "run" /\ program \in {"all_in_one", "individual"})
        => /\ RefsResolve(openapi_spec)
           /\ \A i \in 1..Len(files) :
                HasKey(files[i][2], "paths") => RefsResolve(files[i][2])

\* The catalog was written after one table failed and one was processed, and it
\* holds a reference to the write schema of the processed table
C2_Witness ==
    /\ mode = "run" /\ program = "all_in_one" /\ outcome = "completed"
    /\ processed_tables = <<"users">>
    /\ \E i \in 1..Len(log) : log[i] = Event("error_table", "broken")
    /\ OHas(files, AllInOneOutputFile)
    /\ "#/components/schemas/NewUser" \in PathRefs(OGet(files, AllInOneOutputFile).paths)

\* C3: in the catalog no components.schemas entry written for an earlier table is
\* overwritten by a later table or by the shared Error schema: the entries of every
\* processed table are still the schemas built from that table's columns.
C3_NoSchemaOverwritten ==
    (mode = "run" /\ program = "all_in_one")
    => \A i \in 1..Len(built) :
         /\ OHas(openapi_spec.schemas, SchemaName(built[i].table))
         /\ OGet(openapi_spec.schemas, SchemaName(built[i].table)) = built[i].table_schema
         /\ OHas(openapi_spec.schemas, NewSchemaName("basic", built[i].table))
         /\ OGet(openapi_spec.schemas, NewSchemaName("basic", built[i].table))
              = built[i].new_table_schema

---------------------------------------------------------------------------
(* Type Mapper properties *)

TypeMapperReturned == Returned("mysql_type_to_openapi_type")

Int64 == [type |-> "integer", format |-> "int64"]

\* The ten rules of the Type Mapper specification in priority order, each with the
\* condition under which it applies and the fragment it gives; `tinyint1` says when
\* rule 1 gives boolean
TenRules(t, tinyint1) ==
    << [applies |-> Contains(t, "int"),
        gives |-> IF Contains(t, "bigint") THEN Int64
                  ELSE IF tinyint1 THEN [type |-> "boolean"]
                  ELSE [type |-> "integer", format |-> "int32"]],
       [applies |-> \E f \in {"float", "double", "decimal"} : Contains(t, f),
        gives |-> [type |-> "number", format |-> "double"]],
       [applies |-> \E f \in {"varchar", "text", "char"} : Contains(t, f),
        gives |-> [type |-> "string"]],
       [applies |-> \E f \in {"datetime", "timestamp"} : Contains(t, f),
        gives |-> [type |-> "string", format |-> "date-time"]],
       [applies |-> Contains(t, "date"), gives |-> [type |-> "string", format |-> "date"]],
       [applies |-> Contains(t, "time"), gives |-> [type |-> "string", format |-> "time"]],
       [applies |-> Contains(t, "bool"), gives |-> [type |-> "boolean"]],
       [applies |-> Contains(t, "json"), gives |-> [type |-> "object"]],
       [applies |-> Contains(t, "enum"), gives |-> [type |-> "string"]],
       [applies |-> TRUE, gives |-> [type |-> "string"]] >>

\* The fragment of the first rule that applies
FirstMatch(rules) ==
    rules[CHOOSE i \in 1..Len(rules) :
            rules[i].applies /\ \A j \in 1..(i - 1) : ~rules[j].applies].gives

\* C8 (as claimed): the enhanced Type Mapper returns the result of the first matching
\* of the ten rules, where rule 1 gives boolean only for the string that is exactly
\* `tinyint(1)`, so that `tinyint(1) unsigned` gives integer / int32.
C8_FirstRuleExactTinyint ==
    (TypeMapperReturned /\ call.variant = "enhanced")
    => ret = FirstMatch(TenRules(Lower(call.mysql_type),
                                 Lower(call.mysql_type) = "tinyint(1)"))

\* C8 (amended): the enhanced Type Mapper returns the result of the first matching of
\* the ten rules, where rule 1 gives boolean for every string that contains
\* `tinyint(1)` and not `bigint`; `enum` gives string only when no earlier rule matches.
C8_FirstRuleContainsTinyint ==
    (TypeMapperReturned /\ call.variant = "enhanced")
    => ret = FirstMatch(TenRules(Lower(call.mysql_type),
                                 Contains(Lower(call.mysql_type), "tinyint(1)")))

\* The enhanced mapper has returned boolean for `tinyint(1) unsigned`
C8_Witness ==
    /\ TypeMapperReturned /\ call.variant = "enhanced"
    /\ call.mysql_type = "tinyint(1) unsigned"
    /\ ret = [type |-> "boolean"]

\* C9: in both variants a type string containing `bigint` gives integer / int64; the
\* string `tinyint(1)` gives boolean in the enhanced variant and integer in the basic.
C9_BigintAndTinyint ==
    TypeMapperReturned
    => /\ Contains(Lower(call.mysql_type), "bigint") => ret = Int64
       /\ Lower(call.mysql_type) = "tinyint(1)"
            => ret["type"] = (IF call.variant = "enhanced" THEN "boolean" ELSE "integer")

\* The basic mapper has returned integer for `tinyint(1)`
C9_Witness ==
    /\ TypeMapperReturned /\ call.variant = "basic"
    /\ call.mysql_type = "tinyint(1)"
    /\ ret["type"] = "integer"

\* C10: the Type Mapper is total and case-insensitive: every type string gives one
\* fragment, holding a type among string, integer, number, boolean, object and at most
\* a format besides, and every type string that differs from it only in letter case
\* gives the same fragment.
C10_TotalCaseInsensitive ==
    TypeMapperReturned
    => /\ DOMAIN ret \subseteq {"type", "format"}
       /\ "type" \in DOMAIN ret
       /\ ret["type"] \in {"string", "integer", "number", "boolean", "object"}
       /\ \A other \in TypeStrings :
            Lower(other) = Lower(call.mysql_type)
            => mysql_type_to_openapi_type(call.variant, other) = ret

\* The mapper has returned int64 for an upper-case BIGINT
C10_Witness ==
    /\ TypeMapperReturned
    /\ call.mysql_type = "BIGINT(20)"
    /\ ret = Int64

---------------------------------------------------------------------------
(* Query Parameter Advisor properties *)

AdvisorReturned == Returned("add_smart_query_params")

ParamNames(params) == [i \in 1..Len(params) |-> params[i].name]

\* The topic blocks in the order the advisor tests them: the name fragment a block
\* looks for and the filters it always adds
TopicBlocks ==
    << [fragment |-> "user", filters |-> {"role_id", "active"}],
       [fragment |-> "task", filters |-> {"status_id", "priority_level", "assigned_to"}],
       [fragment |-> "contact", filters |-> {"relationship", "is_emergency"}],
       [fragment |-> "notification", filters |-> {"is_read", "notification_type"}] >>

BlockMatches(k, table_name) == Contains(Lower(table_name), TopicBlocks[k].fragment)

\* C4 (as claimed): for a Searchable table the topic blocks are non-exclusive: the
\* returned parameters contain the filters of every block whose pattern the table
\* name matches.
C4_EveryMatchingBlockFires ==
    (AdvisorReturned /\ should_generate_query_params_individual(call.table_name))
    => \A k \in 1..Len(TopicBlocks) :
         BlockMatches(k, call.table_name)
         => TopicBlocks[k].filters \subseteq Range(ParamNames(ret))

\* C4 (amended): for a Searchable table the topic blocks are exclusive: the returned
\* parameters contain the filters of the first block, in the order user, task,
\* contact, notification, whose pattern the table name matches, and no filter of any
\* other block.
C4_FirstMatchingBlockOnly ==
    (AdvisorReturned /\ should_generate_query_params_individual(call.table_name))
    => \A k \in 1..Len(TopicBlocks) :
         IF BlockMatches(k, call.table_name)
            /\ \A j \in 1..(k - 1) : ~BlockMatches(j, call.table_name)
         THEN TopicBlocks[k].filters \subseteq Range(ParamNames(ret))
         ELSE TopicBlocks[k].filters \cap Range(ParamNames(ret)) = {}

\* A table name matching `user` and `task` got the user filters and no task filter
C4_Witness ==
    /\ AdvisorReturned
    /\ call.table_name = "user_tasks"
    /\ {"role_id", "active"} \subseteq Range(ParamNames(ret))
    /\ "status_id" \notin Range(ParamNames(ret))

\* Whether a parameter's schema is a mapping (a dict) holding that type
IsMappingOfType(param, type) ==
    /\ param.schema.py = "dict"
    /\ "type" \in DOMAIN param.schema.v
    /\ param.schema.v["type"] = type

\* C5: for table `tasks` with any column list the parameters contain `status_id` with
\* an integer schema enumerating 1..4, `priority_level` with an integer schema bounded
\* to [1,5], and `assigned_to` with a schema that is a mapping whose type is integer.
C5_TasksFilters ==
    (AdvisorReturned /\ call.table_name = "tasks")
    => /\ \E i \in 1..Len(ret) :
            /\ ret[i].name = "status_id"
            /\ IsMappingOfType(ret[i], "integer")
            /\ ret[i].schema.v.enum = <<1, 2, 3, 4>>
       /\ \E i \in 1..Len(ret) :
            /\ ret[i].name = "priority_level"
            /\ IsMappingOfType(ret[i], "integer")
            /\ ret[i].schema.v.minimum = 1
            /\ ret[i].schema.v.maximum = 5
       /\ \E i \in 1..Len(ret) :
            /\ ret[i].name = "assigned_to"
            /\ IsMappingOfType(ret[i], "integer")

\* The group of a parameter in the documented order: table-specific filters, then the
\* created_from / created_to date range, then the generic search, then pagination,
\* then sort
ParamGroup(name) ==
    IF name \in {"created_from", "created_to"} THEN 2
    ELSE IF name = "search" THEN 3
    ELSE IF name \in {"page", "limit"} THEN 4
    ELSE IF name \in {"sort_by", "sort_order"} THEN 5
    ELSE 1

\* C6: for a Searchable table and any column list the parameters come in the order
\* table-specific filters, created_from / created_to, search, and end with exactly
\* page, limit, sort_by, sort_order; none of an earlier group follows one of a later.
C6_ParameterOrder ==
    (AdvisorReturned /\ should_generate_query_params_individual(call.table_name))
    => /\ Len(ret) >= 4
       /\ SubSeq(ParamNames(ret), Len(ret) - 3, Len(ret))
            = <<"page", "limit", "sort_by", "sort_order">>
       /\ \A a, b \in 1..Len(ret) :
            a < b => ParamGroup(ret[a].name) <= ParamGroup(ret[b].name)

\* A returned sequence holding every group
C6_Witness ==
    /\ AdvisorReturned
    /\ ParamNames(ret) = << "role_id", "active", "created_from", "created_to", "search",
                            "page", "limit", "sort_by", "sort_order" >>

\* The name fragments of system and lookup tables
SystemFragments ==
    { "log_", "audit_", "temp_", "backup_",
      "categorypriority", "conflictactions", "conflictsuggestions" }

\* Searchable: no system fragment in the lower-cased name, and some high- or
\* medium-priority fragment in it
Searchable(table_name) ==
    /\ ~\E f \in SystemFragments : Contains(Lower(table_name), f)
    /\ \E f \in Range(high_priority_tables) \cup Range(medium_priority_tables) :
          Contains(Lower(table_name), f)

\* C7: the advisor returns the empty sequence exactly when the table is not
\* Searchable, the system deny-list being checked first: a name with a system fragment
\* gets no parameters whatever its columns and its priority fragments, and a name
\* matching no list gets none.
C7_EmptyIffNotSearchable ==
    AdvisorReturned => (ret = <<>> <=> ~Searchable(call.table_name))

\* `temp_users`, which holds a system and a priority fragment, got no parameters for
\* a non-empty column list
C7_Witness ==
    /\ AdvisorReturned
    /\ call.table_name = "temp_users"
    /\ Len(call.columns) > 0
    /\ ret = <<>>

---------------------------------------------------------------------------
(* Scenario and structure of the per-table document *)

\* The schema of the path parameter of every operation of an item path, when they
\* all carry one parameter with the same schema; NoValue otherwise
ItemParamSchema(item_path, name) ==
    IF \A v \in 1..Len(item_path) :
          /\ Len(item_path[v][2].parameters) = 1
          /\ item_path[v][2].parameters[1].name = name
          /\ item_path[v][2].parameters[1]["in"] = "path"
          /\ item_path[v][2].parameters[1].schema = item_path[1][2].parameters[1].schema
    THEN item_path[1][2].parameters[1].schema
    ELSE NoValue

IsReadOnly(fragment) == HasKey(fragment, "readOnly") /\ fragment["readOnly"]

HasFormat(fragment, format) == HasKey(fragment, "format") /\ fragment["format"] = format

\* C11: for table `users` with columns id (int(11), primary key, auto_increment),
\* email (varchar(255), not null) and created_at (timestamp, nullable) the per-table
\* generator gives a read schema of the three properties with id read-only, email of
\* format email, created_at of format date-time and read-only; a create schema whose
\* only property is email and whose required list is exactly email; an item path keyed
\* by id with schema integer / int64 / minimum 1; and the list parameters role_id,
\* active, created_from, created_to, page, limit, sort_by, sort_order.
C11_UsersRoundTrip ==
    (IndividualReturned /\ call.table_name = "users" /\ call.columns = RoundTripColumns)
    => /\ ~ret.raised
       /\ OKeys(OGet(ret.schemas, "Users").properties) = <<"id", "email", "created_at">>
       /\ IsReadOnly(OGet(OGet(ret.schemas, "Users").properties, "id"))
       /\ HasFormat(OGet(OGet(ret.schemas, "Users").properties, "email"), "email")
       /\ HasFormat(OGet(OGet(ret.schemas, "Users").properties, "created_at"), "date-time")
       /\ IsReadOnly(OGet(OGet(ret.schemas, "Users").properties, "created_at"))
       /\ OKeys(OGet(ret.schemas, "CreateUser").properties) = <<"email">>
       /\ OGet(ret.schemas, "CreateUser").required = <<"email">>
       /\ OKeys(ret.paths) = <<"/", "/{id}">>
       /\ ItemParamSchema(OGet(ret.paths, "/{id}"), "id")
            = [type |-> "integer", format |-> "int64", minimum |-> 1]
       /\ ParamNames(OGet(OGet(ret.paths, "/"), "get").parameters)
            = << "role_id", "active", "created_from", "created_to",
                 "page", "limit", "sort_by", "sort_order" >>

\* The generator has returned the document of the scenario
C11_Witness ==
    /\ IndividualReturned
    /\ call.table_name = "users" /\ call.columns = RoundTripColumns
    /\ ~ret.raised
    /\ OHas(ret.schemas, "CreateUser")

---------------------------------------------------------------------------
(* The table loops of the three programs *)

InTableLoop == mode = "run" /\ pc = "tables"

\* The tables the table loop has dealt with, in the order of their first event
PerTableEvents == SelectSeq(log, LAMBDA e : e.ev \in {"generated", "error_table", "skip_empty"})

DealtWith == { PerTableEvents[k].table : k \in 1..Len(PerTableEvents) }

HasEvent(ev, table) == \E k \in 1..Len(log) : log[k] = Event(ev, table)

\* C12: in each of the three programs an error raised while one valid table is
\* processed does not end the run: every iteration of the table loop, whatever it
\* raised, leaves the run running and moves on to the next valid table, so the loop
\* is left only past the end of the list, and the tables dealt with so far are
\* always exactly the valid tables before the loop position.
C12_TableErrorIsolated ==
    /\ [](InTableLoop => DealtWith = { valid_tables[k] : k \in 1..(idx - 1) })
    /\ [][ (InTableLoop /\ idx <= Len(valid_tables))
           => /\ pc' = "tables" /\ outcome' = "running"
              /\ idx' = idx + 1
              /\ \E k \in 1..Len(log') :
                    /\ log'[k].table = valid_tables[idx]
                    /\ log'[k].ev \in {"generated", "error_table", "skip_empty"} ]_vars

\* A run of the data exporter in which the first valid table failed and the second
\* was exported
C12_Witness ==
    /\ mode = "run" /\ program = "yaml"
    /\ valid_tables = <<"broken", "users">>
    /\ PerTableEvents = <<Event("error_table", "broken"), Event("generated", "users")>>

\* The tables of the database whose column loop raises, by variant
AssemblyFails(variant) ==
    { t \in DOMAIN Database :
        Len(Database[t]) > 0 /\ ColumnLoop(variant, t, Database[t], LoopStart).raised }

AssemblyFailsBasic == AssemblyFails("basic")

AssemblyFailsEnhanced == AssemblyFails("enhanced")

\* Whether the catalog holds a path or a schema that table `t` would contribute
CatalogMentions(t) ==
    \/ \E k \in 1..Len(openapi_spec.paths) :
          \/ openapi_spec.paths[k][1] = "/" \o t
          \/ /\ Len(openapi_spec.paths[k][1]) > Len(t) + 2
             /\ SubSeq(openapi_spec.paths[k][1], 1, Len(t) + 3) = "/" \o t \o "/{"
    \/ OHas(openapi_spec.schemas, SchemaName(t))
    \/ OHas(openapi_spec.schemas, NewSchemaName("basic", t))

\* C13: assembly is all-or-nothing per table: of a table whose assembly raises, the
\* catalog of the all-in-one program never holds a path or a schema and the per-table
\* program never writes a document file; an iteration of the all-in-one table loop
\* that ends in the per-table handler leaves the catalog as it was.
C13_AllOrNothing ==
    /\ []((mode = "run" /\ program = "all_in_one")
            => \A t \in AssemblyFailsBasic : ~CatalogMentions(t))
    /\ []((mode = "run" /\ program = "individual")
            => \A t \in AssemblyFailsEnhanced : ~OHas(files, IndividualOutputFile(t)))
    /\ [][ (InTableLoop /\ program = "all_in_one" /\ idx <= Len(valid_tables)
            /\ log' = Append(log, Event("error_table", valid_tables[idx])))
           => openapi_spec' = openapi_spec ]_vars

\* The all-in-one program has processed one table after the assembly of another
\* raised, and the per-table handler has reported it
C13_Witness ==
    /\ mode = "run" /\ program = "all_in_one"
    /\ valid_tables = <<"users", "broken">>
    /\ "broken" \in AssemblyFailsBasic
    /\ PerTableEvents = <<Event("generated", "users"), Event("error_table", "broken")>>
    /\ OKeys(openapi_spec.paths) = <<"/users", "/users/{id}">>

---------------------------------------------------------------------------
(* How a run ends *)

RunEnded == mode = "run" /\ pc = "done"

\* No yaml.dump of the run raised after its file was opened
NoDumpFailed == \A k \in 1..Len(files) : files[k][2] # PartialFile

\* Whether some table was successfully generated
SomeTableGenerated ==
    IF program = "all_in_one" THEN Len(processed_tables) > 0
    ELSE Len(generated_files) > 0

\* A run-level failure: neither the catalog nor the index document is written, and
\* completion is not reported
RunLevelFailure ==
    /\ ~OHas(files, AllInOneOutputFile)
    /\ ~OHas(files, IndividualIndexFile)
    /\ ~HasEvent("completed", "")

\* C14: in the all-in-one and in the per-table program a run in which no write was
\* cut short ends in a run-level failure if and only if no table was successfully
\* generated, whatever tables were skipped or failed.
C14_FailureIffNothingGenerated ==
    (RunEnded /\ program \in {"all_in_one", "individual"} /\ NoDumpFailed)
    => (RunLevelFailure <=> ~SomeTableGenerated)

\* The index document a finished run of the per-table program wrote
WrittenIndex == OGet(files, IndividualIndexFile)

\* C15: after a run of the per-table program in which no write was cut short, every
\* table whose document file was written is in exactly one of the `searchable` and
\* `system` maps of the index, the one matching its classification, and the location
\* the index records for it is the name of the file its document was written to.
C15_IndexMatchesFiles ==
    (RunEnded /\ program = "individual" /\ NoDumpFailed /\ OHas(files, IndividualIndexFile))
    => \A k \in 1..Len(valid_tables) :
         OHas(files, IndividualOutputFile(valid_tables[k]))
         => /\ OHas(WrittenIndex.searchable, valid_tables[k])
                 # OHas(WrittenIndex.system, valid_tables[k])
            /\ OHas(WrittenIndex.searchable, valid_tables[k])
                 <=> Searchable(valid_tables[k])
            /\ \A map \in {WrittenIndex.searchable, WrittenIndex.system} :
                 OHas(map, valid_tables[k])
                 => IndividualDir \o "/" \o OGet(map, valid_tables[k])
                      = IndividualOutputFile(valid_tables[k])

---------------------------------------------------------------------------
(* Paths and write schemas *)

KeyColumns(columns) == { i \in 1..Len(columns) : columns[i][4] = "PRI" }

\* The last column with the primary-key role
LastKeyColumn(columns) ==
    columns[CHOOSE i \in KeyColumns(columns) : \A j \in KeyColumns(columns) : j <= i]

\* An integer type: the lower-cased native type contains `int`
IsIntegerType(native_type) == Contains(Lower(native_type), "int")

\* Whether `paths` is the collection path `collection` alone when no column is a
\* primary key, and else the collection path and the item path `item_prefix{key}`
\* whose parameter has schema `integer_schema` for a key of an integer type and
\* plain string otherwise
PathsAsClaimed(paths, columns, collection, item_prefix, integer_schema) ==
    IF KeyColumns(columns) = {}
    THEN OKeys(paths) = <<collection>>
    ELSE /\ OKeys(paths)
              = <<collection, item_prefix \o "{" \o LastKeyColumn(columns)[1] \o "}">>
         /\ ItemParamSchema(paths[2][2], LastKeyColumn(columns)[1])
              = (IF IsIntegerType(LastKeyColumn(columns)[2])
                 THEN integer_schema ELSE [type |-> "string"])

\* C16 (as claimed): in both assembler variants the collection path is produced for
\* every table, the item path if and only if some column is a primary key, and the
\* schema of the item path parameter is integer / int64 / minimum 1 for a primary key
\* of an integer type and plain string otherwise.
C16_PathsMinimumInBothVariants ==
    /\ (IndividualReturned /\ ~ret.raised)
        => PathsAsClaimed(ret.paths, call.columns, "/", "/",
                          [type |-> "integer", format |-> "int64", minimum |-> 1])
    /\ (AllInOneReturned /\ ~ret.raised)
        => PathsAsClaimed(ret.openapi_spec.paths, call.columns,
                          "/" \o call.table_name, "/" \o call.table_name \o "/",
                          [type |-> "integer", format |-> "int64", minimum |-> 1])

\* C16 (amended): the same, except that for a primary key of an integer type the
\* all-in-one variant gives integer / int64 without a minimum; the per-table variant
\* gives integer / int64 / minimum 1.
C16_PathsMinimumInPerTableVariant ==
    /\ (IndividualReturned /\ ~ret.raised)
        => PathsAsClaimed(ret.paths, call.columns, "/", "/",
                          [type |-> "integer", format |-> "int64", minimum |-> 1])
    /\ (AllInOneReturned /\ ~ret.raised)
        => PathsAsClaimed(ret.openapi_spec.paths, call.columns,
                          "/" \o call.table_name, "/" \o call.table_name \o "/",
                          [type |-> "integer", format |-> "int64"])

\* The all-in-one table loop body has built the item path of a table whose first
\* column is a string and whose primary key is an integer
C16_Witness ==
    /\ AllInOneReturned /\ ~ret.raised
    /\ Len(call.columns) = 2
    /\ ~IsIntegerType(call.columns[1][2])
    /\ call.columns[2][4] = "PRI" /\ IsIntegerType(call.columns[2][2])
    /\ Len(ret.openapi_spec.paths) = 2
    /\ ItemParamSchema(ret.openapi_spec.paths[2][2], call.columns[2][1])
         = [type |-> "integer", format |-> "int64"]

\* C17: in the per-table variant no field marked read-only in the read schema, and so
\* no primary key, is a property of the create or of the update schema; the required
\* list of the create schema holds only names of its properties; the update schema
\* has the property names of the create schema and an empty required list.
C17_WriteSchemasPerTable ==
    (IndividualReturned /\ ~ret.raised)
    => /\ \A i \in 1..Len(call.columns) :
            (\/ call.columns[i][4] = "PRI"
             \/ IsReadOnly(OGet(OGet(ret.schemas, SchemaName(call.table_name)).properties,
                                call.columns[i][1])))
            => /\ ~OHas(OGet(ret.schemas, NewSchemaName("enhanced", call.table_name)).properties,
                        call.columns[i][1])
               /\ ~OHas(OGet(ret.schemas, UpdateSchemaName(call.table_name)).properties,
                        call.columns[i][1])
       /\ Range(OGet(ret.schemas, NewSchemaName("enhanced", call.table_name)).required)
            \subseteq OKeySet(OGet(ret.schemas,
                                   NewSchemaName("enhanced", call.table_name)).properties)
       /\ OKeys(OGet(ret.schemas, UpdateSchemaName(call.table_name)).properties)
            = OKeys(OGet(ret.schemas, NewSchemaName("enhanced", call.table_name)).properties)
       /\ OGet(ret.schemas, UpdateSchemaName(call.table_name)).required = <<>>

\* A document for a read-only timestamp column and a required writable column
C17_Witness ==
    /\ IndividualReturned /\ ~ret.raised
    /\ \E i \in 1..Len(call.columns) :
          /\ call.columns[i][4] # "PRI"
          /\ IsReadOnly(OGet(OGet(ret.schemas, SchemaName(call.table_name)).properties,
                             call.columns[i][1]))
    /\ Len(OGet(ret.schemas, NewSchemaName("enhanced", call.table_name)).required) > 0

---------------------------------------------------------------------------
(* Table-name validation *)

\* Whether a string matches ^[A-Za-z0-9_]+$
MatchesPattern(name) ==
    /\ Len(name) > 0
    /\ \A i \in 1..Len(name) :
          \E class \in {"abcdefghijklmnopqrstuvwxyz", "ABCDEFGHIJKLMNOPQRSTUVWXYZ",
                        "0123456789", "_"} :
             Contains(class, SubSeq(name, i, i))

---------------------------------------------------------------------------
(* Field Decorator *)

\* The categories of the Field Decorator in their order of precedence for a column
\* named `n` (lower-cased) with key role `col_key` whose mapped fragment has type
\* `type`: whether the category applies, the keys it adds and the description it gives
Categories(n, col_key, type, table_name) ==
    << [applies |-> col_key = "PRI",
        keys |-> {"readOnly", "description"},
        description |-> "Primary key for " \o table_name],
       [applies |-> Contains(n, "email"),
        keys |-> {"format", "description", "example"},
        description |-> "Valid email address"],
       [applies |-> Contains(n, "phone"),
        keys |-> {"pattern", "description", "example"},
        description |-> "Phone number (7-15 digits)"],
       [applies |-> n = "priority_level_id",
        keys |-> {"minimum", "maximum", "description"},
        description |-> "Priority level (1=Low, 2=Medium, 3=High, 4=Urgent, 5=Critical)"],
       [applies |-> n = "age",
        keys |-> {"minimum", "maximum", "description"},
        description |-> "Age in years"],
       [applies |-> Contains(n, "status"),
        keys |-> {"description"},
        description |-> "Status identifier"],
       [applies |-> Contains(n, "created_at"),
        keys |-> {"description", "readOnly"},
        description |-> "Record creation timestamp"],
       [applies |-> Contains(n, "updated_at"),
        keys |-> {"description", "readOnly"},
        description |-> "Last update timestamp"],
       [applies |-> col_key # "PRI" /\ EndsWith(n, "_id"),
        keys |-> {"description"},
        description |-> "Foreign key reference to related entity"],
       [applies |-> Contains(n, "name"),
        keys |-> IF type = "string" THEN {"description", "minLength", "maxLength"}
                 ELSE {"description"},
        description |-> "Name or title"],
       [applies |-> Contains(n, "description"),
        keys |-> IF type = "string" THEN {"description", "maxLength"} ELSE {"description"},
        description |-> "Detailed description"] >>

\* Whether `decorated` is `base` with the keys of the first applicable category, and
\* no other key, added
FirstCategoryOnly(decorated, base, categories) ==
    IF \E k \in 1..Len(categories) : categories[k].applies
    THEN \E k \in 1..Len(categories) :
            /\ categories[k].applies
            /\ \A j \in 1..(k - 1) : ~categories[j].applies
            /\ DOMAIN decorated = DOMAIN base \cup categories[k].keys
            /\ decorated["description"] = categories[k].description
            /\ \A key \in DOMAIN base \ categories[k].keys : decorated[key] = base[key]
    ELSE decorated = base

\* C19: the Field Decorator applies exactly one category per column, the first
\* applicable one in the order primary key, email, phone, priority_level_id, age,
\* status, created_at / updated_at, non-primary `_id` suffix, name, description: the
\* property of every column in the read schema is the mapped fragment with the keys
\* of that category and of no later one (so `status_updated_at` is not read-only).
C19_FirstCategoryOnly ==
    (IndividualReturned /\ ~ret.raised)
    => \A i \in 1..Len(call.columns) :
         FirstCategoryOnly(
            OGet(OGet(ret.schemas, SchemaName(call.table_name)).properties,
                 call.columns[i][1]),
            mysql_type_to_openapi_type("enhanced", call.columns[i][2]),
            Categories(Lower(call.columns[i][1]), call.columns[i][4],
                       mysql_type_to_openapi_type("enhanced", call.columns[i][2])["type"],
                       call.table_name))

\* A document whose columns match several categories each: `status_updated_at` is
\* described as a status and is not read-only, `phone_email` is an email
C19_Witness ==
    /\ IndividualReturned /\ ~ret.raised
    /\ Len(call.columns) = 2
    /\ call.columns[1][1] = "status_updated_at" /\ call.columns[2][1] = "phone_email"
    /\ ~IsReadOnly(OGet(OGet(ret.schemas, SchemaName(call.table_name)).properties,
                        "status_updated_at"))
    /\ HasFormat(OGet(OGet(ret.schemas, SchemaName(call.table_name)).properties,
                      "phone_email"), "email")

---------------------------------------------------------------------------
(* Generic search parameter *)

\* A column whose native type is one of the string types varchar, char, text
IsStringTyped(col) ==
    \E t \in {"varchar", "char", "text"} : Contains(Lower(col[2]), t)

\* A column whose native type holds `varchar` or `text`
IsVarcharOrText(col) ==
    \E t \in {"varchar", "text"} : Contains(Lower(col[2]), t)

SearchParameters(params) == SelectSeq(params, LAMBDA p : p.name = "search")

\* Whether `params` holds the `search` parameter exactly when `counted` has more than
\* one column, with schema string / minLength 3 and a description that names the
\* first three counted columns at most
SearchAsClaimed(params, counted) ==
    LET found == SearchParameters(params)
        names == [i \in 1..Len(counted) |-> counted[i][1]]
    IN  /\ Len(found) = (IF Len(counted) > 1 THEN 1 ELSE 0)
        /\ Len(found) = 1 =>
             /\ found[1].schema = PyDict([type |-> "string", minLength |-> 3])
             /\ found[1].description
                  \in { "Global search across text fields: " \o Join(", ", Take(names, 3))
                           \o suffix : suffix \in {"", "..."} }

\* C20 as stated: for a Searchable table the `search` parameter (string, minLength 3)
\* is present iff more than one column has a string type (varchar, char, text), and
\* its description names at most the first 3 of them.
C20_SearchIffStringColumns ==
    (AdvisorReturned /\ Searchable(call.table_name))
    => SearchAsClaimed(ret, SelectSeq(call.columns, IsStringTyped))

\* C20 amended: for a Searchable table the `search` parameter (string, minLength 3) is
\* present iff more than one column has a native type holding `varchar` or `text` (a
\* `char` column does not count), and its description names at most the first 3 of
\* them.
C20_SearchIffVarcharOrTextColumns ==
    (AdvisorReturned /\ Searchable(call.table_name))
    => SearchAsClaimed(ret, SelectSeq(call.columns, IsVarcharOrText))

\* A Searchable table with a varchar and a char column got no `search` parameter
C20_Witness ==
    /\ AdvisorReturned /\ Searchable(call.table_name)
    /\ Len(call.columns) = 2
    /\ call.columns[1][2] = "varchar(100)" /\ call.columns[2][2] = "char(2)"
    /\ SearchParameters(ret) = <<>>
    /\ ret # <<>>

---------------------------------------------------------------------------
(* Naming Transformer properties *)

\* `name` without its last character when that character is `s`, else `name`
WithoutTrailingS(name) ==
    IF Len(name) > 0 /\ SubSeq(name, Len(name), Len(name)) = "s"
    THEN SubSeq(name, 1, Len(name) - 1)
    ELSE name

\* The operation of `verb` in a path item
Operation(path_item, verb) == OGet(path_item, verb)

\* C21: the naming identifiers are functions of the table name only. The resource
\* name is the table name without one trailing `s`; the schema name is the capitalized
\* table name; the create / update schema names and the create, get, update, patch
\* and delete operationIds are the prefix or verb followed by the capitalized name
\* without one trailing `s` (the item-level get then carries the suffix `ById`); in
\* the catalog the write schema is named `New` followed by the same name. Whatever the
\* columns, a table name yields these identifiers.
C21_NamesFromTableNameOnly ==
    /\ (IndividualReturned /\ ~ret.raised)
       => LET t == call.table_name
              singular == WithoutTrailingS(Capitalize(t))
              collection == OGet(ret.paths, "/")
          IN  /\ OHas(ret.schemas, Capitalize(t))
              /\ OHas(ret.schemas, "Create" \o singular)
              /\ OHas(ret.schemas, "Update" \o singular)
              /\ Operation(collection, "post").summary = "Create new " \o WithoutTrailingS(t)
              /\ Operation(collection, "post").operationId = "create" \o singular
              /\ \A k \in 1..Len(ret.paths) :
                    ret.paths[k][1] # "/"
                    => LET item == ret.paths[k][2] IN
                       /\ Operation(item, "get").summary
                            = "Get " \o WithoutTrailingS(t) \o " by ID"
                       /\ Operation(item, "get").operationId = "get" \o singular \o "ById"
                       /\ Operation(item, "put").operationId = "update" \o singular
                       /\ Operation(item, "patch").operationId = "patch" \o singular
                       /\ Operation(item, "delete").operationId = "delete" \o singular
    /\ (AllInOneReturned /\ ~ret.raised)
       => LET t == call.table_name
              singular == WithoutTrailingS(Capitalize(t))
          IN  /\ OHas(ret.openapi_spec.schemas, Capitalize(t))
              /\ OHas(ret.openapi_spec.schemas, "New" \o singular)
              /\ Operation(OGet(ret.openapi_spec.paths, "/" \o t), "post").summary
                   = "Create a new " \o WithoutTrailingS(t)

\* The document of table `USERS`: the schema names come from `Users`, the resource
\* name is `USERS` itself
C21_Witness ==
    /\ IndividualReturned /\ ~ret.raised
    /\ call.table_name = "USERS"
    /\ OKeys(ret.schemas) = <<"Users", "CreateUser", "UpdateUser", "PaginationMeta">>
    /\ Operation(OGet(ret.paths, "/"), "post").summary = "Create new USERS"
    /\ Operation(OGet(ret.paths, "/{id}"), "get").operationId = "getUserById"

---------------------------------------------------------------------------
(* Failures of the document-writing step *)

\* Whether the run reported its successful completion
CompletionReported == \E k \in 1..Len(log) : log[k].ev = "completed"

\* C22: a failure of the document-writing step is surfaced to the caller of the run:
\* in every variant a run in which a write failed (a yaml.dump raised on an opened
\* file) ends in a failure outcome and does not report successful completion. No
\* action writes a file a second time, so no write is retried.
C22_WriteFailureSurfaced ==
    (RunEnded /\ program \in {"all_in_one", "individual"} /\ ~NoDumpFailed)
    => (outcome = "run_error" /\ ~CompletionReported)

---------------------------------------------------------------------------
(* The success report of the per-table program *)

\* C23: in the per-table variant a table whose document file was written and appended
\* to generated_files is never reported as `Error processing table`: the per-table
\* error path is taken only for a table without a document.
C23_WrittenTableNotReportedAsError ==
    (mode = "run" /\ program = "individual")
    => \A k \in 1..Len(valid_tables) :
          (\E g \in 1..Len(generated_files) :
               generated_files[g] = IndividualOutputFile(valid_tables[k]))
          => ~HasEvent("error_table", valid_tables[k])

---------------------------------------------------------------------------
(* The auto-increment marker in the all-in-one program *)

\* C24: in the all-in-one variant a primary-key column is omitted from the New schema
\* exactly when the column itself carries the auto_increment marker: a primary-key
\* column without it is among the properties of the New schema wherever it stands in
\* the column order, also after an auto-increment primary-key column.
C24_OmittedByOwnMarkerOnly ==
    (AllInOneReturned /\ ~ret.raised)
    => \A i \in 1..Len(call.columns) :
          call.columns[i][4] = "PRI"
          => (OHas(OGet(ret.openapi_spec.schemas,
                        NewSchemaName("basic", call.table_name)).properties,
                   call.columns[i][1])
              <=> ~Contains(Lower(ColExtra(call.columns[i])), "auto_increment"))

---------------------------------------------------------------------------
(* The database connection *)

\* C25: in each of the three programs the connection opened at the start of the run
\* is closed on every path by which the run ends: normal completion, the early
\* returns for no tables, no valid tables and no processed tables, and an error
\* caught by the run-level handler. No ended run holds an open connection.
C25_ConnectionClosedWhenRunEnds ==
    RunEnded => connection # "open"

---------------------------------------------------------------------------
(* The output directory of the all-in-one program *)

\* C26: in the all-in-one variant the directory in which the catalog file is opened
\* is a directory the run has ensured to exist: from the start of the table loop on,
\* whatever the working directory held at first, open() of the catalog file finds its
\* directory.
C26_CatalogDirectoryEnsured ==
    (mode = "run" /\ program = "all_in_one" /\ pc = "tables")
    => CanOpen(dirs, AllInOneOutputFile)

---------------------------------------------------------------------------
(* Decoration and mapped type *)

\* C27: in the read schema of the per-table variant decorations stay compatible with
\* the mapped type: `format: email` is only on fields of type string, `minimum` and
\* `maximum` are only on fields of type integer or number, and a datetime or
\* timestamp column keeps the format date-time, for every column name and native type.
C27_DecorationFitsType ==
    (IndividualReturned /\ ~ret.raised)
    => \A i \in 1..Len(call.columns) :
         LET field == OGet(OGet(ret.schemas, SchemaName(call.table_name)).properties,
                           call.columns[i][1])
             native == Lower(call.columns[i][2])
         IN  /\ HasFormat(field, "email") => field["type"] = "string"
             /\ (HasKey(field, "minimum") \/ HasKey(field, "maximum"))
                  => field["type"] \in {"integer", "number"}
             /\ (native \in {"datetime", "timestamp"}) => HasFormat(field, "date-time")

---------------------------------------------------------------------------
(* Item path parameter and primary-key field *)

\* The type and the format ("" when it has none) of a schema fragment
TypeAndFormat(fragment) ==
    <<fragment["type"], IF HasKey(fragment, "format") THEN fragment["format"] ELSE "">>

\* A native type of kind bigint, or of a string kind (varchar, char, text)
IsBigintOrStringType(native_type) ==
    \/ Contains(Lower(native_type), "bigint")
    \/ /\ ~Contains(Lower(native_type), "int")
       /\ \E t \in {"varchar", "char", "text"} : Contains(Lower(native_type), t)

\* Whether, for a table whose key column satisfies `concerned`, the parameter of the
\* item path has the type and format of the key's field in the read schema
ParamMatchesKeyField(paths, read_schema, columns, concerned(_)) ==
    (KeyColumns(columns) # {} /\ concerned(LastKeyColumn(columns)[2]))
    => TypeAndFormat(ItemParamSchema(paths[2][2], LastKeyColumn(columns)[1]))
         = TypeAndFormat(OGet(read_schema.properties, LastKeyColumn(columns)[1]))

\* Whether, for a table whose key is of an integer type other than bigint, the
\* parameter of the item path is integer / int64 and the key's field is not
ParamWiderThanKeyField(paths, read_schema, columns) ==
    (/\ KeyColumns(columns) # {}
     /\ IsIntegerType(LastKeyColumn(columns)[2])
     /\ ~IsBigintOrStringType(LastKeyColumn(columns)[2]))
    => /\ TypeAndFormat(ItemParamSchema(paths[2][2], LastKeyColumn(columns)[1]))
            = <<"integer", "int64">>
       /\ TypeAndFormat(OGet(read_schema.properties, LastKeyColumn(columns)[1]))
            # <<"integer", "int64">>

\* C28 as stated: for every table with a primary key, the type and format of the
\* item path parameter equal those of the primary-key field in the read schema of the
\* same document (keys of native type int(11), bigint, tinyint(1), varchar).
C28_ParamMatchesKeyFieldAlways ==
    /\ (IndividualReturned /\ ~ret.raised)
        => ParamMatchesKeyField(ret.paths, OGet(ret.schemas, SchemaName(call.table_name)),
                                call.columns, LAMBDA t : TRUE)
    /\ (AllInOneReturned /\ ~ret.raised)
        => ParamMatchesKeyField(ret.openapi_spec.paths,
                                OGet(ret.openapi_spec.schemas, SchemaName(call.table_name)),
                                call.columns, LAMBDA t : TRUE)

\* C28 amended: for every table with a primary key of native type bigint or of a
\* string type (varchar, char, text), the type and format of the item path parameter
\* equal those of the primary-key field in the read schema of the same document; for
\* a key of another integer type (int(11), tinyint(1)) the parameter is integer /
\* int64 while the field is int32 or boolean.
C28_ParamMatchesBigintOrStringKey ==
    /\ (IndividualReturned /\ ~ret.raised)
        => /\ ParamMatchesKeyField(ret.paths,
                                   OGet(ret.schemas, SchemaName(call.table_name)),
                                   call.columns, IsBigintOrStringType)
           /\ ParamWiderThanKeyField(ret.paths,
                                     OGet(ret.schemas, SchemaName(call.table_name)),
                                     call.columns)
    /\ (AllInOneReturned /\ ~ret.raised)
        => /\ ParamMatchesKeyField(ret.openapi_spec.paths,
                                   OGet(ret.openapi_spec.schemas,
                                        SchemaName(call.table_name)),
                                   call.columns, IsBigintOrStringType)
           /\ ParamWiderThanKeyField(ret.openapi_spec.paths,
                                     OGet(ret.openapi_spec.schemas,
                                          SchemaName(call.table_name)),
                                     call.columns)

\* The per-table document of a table keyed by a bigint column: parameter and field
\* are both integer / int64
C28_Witness ==
    /\ IndividualReturned /\ ~ret.raised
    /\ Len(call.columns) = 1
    /\ call.columns[1][2] = "bigint(20)" /\ call.columns[1][4] = "PRI"
    /\ TypeAndFormat(ItemParamSchema(ret.paths[2][2], call.columns[1][1]))
         = <<"integer", "int64">>
    /\ TypeAndFormat(OGet(OGet(ret.schemas, SchemaName(call.table_name)).properties,
                          call.columns[1][1])) = <<"integer", "int64">>

---------------------------------------------------------------------------
(* The two Type Mappers compared *)

\* Whether the mapper of the other variant gives the type and format the call returned
OtherVariantAgrees ==
    \A other \in Variants \ {call.variant} :
        TypeAndFormat(mysql_type_to_openapi_type(other, call.mysql_type)) = TypeAndFormat(ret)

\* A type string of the `time` kind: it holds `time` and none of `datetime`,
\* `timestamp`, `date`
IsTimeType(t) ==
    /\ Contains(t, "time")
    /\ ~\E other \in {"datetime", "timestamp", "date"} : Contains(t, other)

---------------------------------------------------------------------------
(* The counters of the data-snapshot exporter *)

RECURSIVE SumOfRecords(_)
\* The sum of the record counts of a sequence of (table, file, records) entries
SumOfRecords(entries) ==
    IF Len(entries) = 0 THEN 0 ELSE entries[1][3] + SumOfRecords(Tail(entries))

\* C30: in the data-snapshot exporter, after any sequence of table outcomes (empty
\* table, exported table, failed table), total_records is the sum of the record counts
\* of the entries of exported_files, each entry carries the number of rows of its
\* table, the metadata's total_tables is the number of entries and its total_records
\* the same sum, and a table whose export raised an error has no entry.
C30_CountersMatchExportedFiles ==
    (mode = "run" /\ program = "yaml")
    => /\ total_records = SumOfRecords(exported_files)
       /\ \A k \in 1..Len(exported_files) :
             /\ exported_files[k][3] = Len(Rows[exported_files[k][1]])
             /\ ~HasEvent("error_table", exported_files[k][1])
       /\ \A t \in DealtWith :
             HasEvent("error_table", t)
             => ~\E k \in 1..Len(exported_files) : exported_files[k][1] = t
       /\ (OHas(files, YamlMetadataFile) /\ OGet(files, YamlMetadataFile) # PartialFile)
             => /\ OGet(files, YamlMetadataFile).total_tables = Len(exported_files)
                /\ OGet(files, YamlMetadataFile).total_records
                     = SumOfRecords(exported_files)

\* A run of the exporter has ended after one table was exported with its two rows and
\* the export of another raised: the metadata counts one table and two records
C30_Witness ==
    /\ RunEnded /\ program = "yaml" /\ outcome = "completed"
    /\ valid_tables = <<"users", "broken">>
    /\ exported_files = << <<"users", YamlOutputFile("users"), 2>> >>
    /\ HasEvent("error_table", "broken")
    /\ OHas(files, YamlMetadataFile)
    /\ OGet(files, YamlMetadataFile).total_tables = 1
    /\ OGet(files, YamlMetadataFile).total_records = 2

=============================================================================
